---- MODULE Spec2Model ----
(***************************************************************************)
(* A model of package gmap (g/container/gmap/gmap.go): a hash map guarded  *)
(* by a reader/writer mutex, with compound check-and-set operations,       *)
(* batch writes, Flip and Merge.  Every method is split at its lock and    *)
(* unlock calls, so that the interleavings of goroutines are those of the  *)
(* Go program.  Only safe mode (a real RWMutex) is modelled.               *)
(***************************************************************************)
EXTENDS Integers, FiniteSets, Sequences, TLC

\* ---------------------------------------------------------------- bounds
NThreads == 3
MaxVal == 2

\* ---------------------------------------------------------------- values
\* interface{}(nil): the value Get returns for a missing key.
Nil == 0

\* Goroutine t makes one call.  The runs of the multi-step methods use the
\* goroutines of Contenders.
Threads == 1..NThreads
Contenders == 1..(NThreads - 1)
Maps == {"a", "b"}

\* The plain (hashable, non-function) values: nil and 1..MaxVal.
U == 0..MaxVal
Vals == 1..MaxVal
\* The key the goroutines of the concurrent runs contend for.
HotKeys == {MaxVal}

\* A value of type func() interface{} is represented by what it returns:
\* Fn(x) is the function returning x.  Plain values are 0..MaxVal, so the
\* type assertion value.(func() interface{}) is IsFn.
Fn(x) == x + MaxVal + 1
IsFn(x) == x > MaxVal
Apply(f) == f - (MaxVal + 1)

\* ---------------------------------------------------------------- stores
\* A Go map is a function whose domain is the set of keys present.
EmptyStore == [x \in {} |-> Nil]
Lookup(s, k) == IF k \in DOMAIN s THEN s[k] ELSE Nil
Put(s, k, v) == [x \in (DOMAIN s) \cup {k} |-> IF x = k THEN v ELSE s[x]]
Del(s, k) == [x \in (DOMAIN s) \ {k} |-> s[x]]

VARIABLES
    data,   \* data[c]: the backing store m.data of container c
    wr,     \* wr[c]: the goroutines holding c's exclusive lock (at most one)
    rd,     \* rd[c]: the goroutines holding c's shared lock, once or (a
            \* callback's Get inside RLockFunc or Iterator) twice
    pc,     \* pc[t]: where goroutine t is in the method it runs
    call,   \* call[t]: the method t runs (or ran last) and its arguments
    loc,    \* loc[t]: the local variables of that method
    ret,    \* ret[t]: what t's call returned
    g       \* g[t]: history of t's call (not program state)

vars == <<data, wr, rd, pc, call, loc, ret, g>>

\* ---------------------------------------------------------------- rwmutex
\* Safe mode: any number of readers or exactly one writer.
CanLock(c) == wr[c] = {} /\ rd[c] = {}
CanRLock(c) == wr[c] = {}
Lock(c, t) == CanLock(c) /\ wr' = [wr EXCEPT ![c] = {t}] /\ rd' = rd
Unlock(c, t) == wr' = [wr EXCEPT ![c] = @ \ {t}] /\ rd' = rd
RLock(c, t) == CanRLock(c) /\ rd' = [rd EXCEPT ![c] = @ \cup {t}] /\ wr' = wr
RUnlock(c, t) == rd' = [rd EXCEPT ![c] = @ \ {t}] /\ wr' = wr

\* ---------------------------------------------------------------- helpers
Goto(t, p) == pc' = [pc EXCEPT ![t] = p]
NoLoc == [v |-> Nil, ok |-> FALSE, value |-> Nil, r |-> Nil,
          rest |-> {}, keys |-> << >>, n |-> EmptyStore]
\* ret[t].map is the map or slice returned; ret[t].ref is "new" when that is an
\* object made by the call, and the container whose store it is otherwise.
NoRet == [ok |-> FALSE, val |-> Nil, map |-> EmptyStore, ref |-> "new"]
\* A call of method op on container m with key k and value v; o is the other
\* container of a Merge, b the map given to Sets, ks the keys given to Removes
\* or NewFromArray, vs the values given to NewFromArray, cb what the callback
\* given to LockFunc, RLockFunc or Iterator does.
Args(op, m, k, v) ==
    [k |-> k, v |-> v, op |-> op, m |-> m, o |-> m, b |-> EmptyStore, ks |-> << >>,
     vs |-> << >>, cb |-> "none"]
NoCall == Args("none", "a", Nil, Nil)
NoG == [fcalls |-> 0, flocked |-> FALSE, fabsent |-> FALSE, stored |-> FALSE,
        present |-> FALSE, pre |-> EmptyStore, post |-> EmptyStore,
        opre |-> EmptyStore]

Begin(t, c, p) ==
    /\ pc[t] = "idle"
    /\ call' = [call EXCEPT ![t] = c]
    /\ Goto(t, p)
    /\ UNCHANGED <<data, wr, rd, loc, ret, g>>

Return(t, r) ==
    /\ ret' = [ret EXCEPT ![t] = r]
    /\ Goto(t, "done")

GetOrSetOps == {"GetOrSet", "GetOrSetFunc", "GetOrSetFuncLock"}
SetIfNotExistOps == {"SetIfNotExist", "SetIfNotExistFunc", "SetIfNotExistFuncLock"}
FuncLockOps == {"GetOrSetFuncLock", "SetIfNotExistFuncLock"}
SupplierOps == {"GetOrSetFunc", "GetOrSetFuncLock", "SetIfNotExistFunc", "SetIfNotExistFuncLock"}

\* ---------------------------------------------------------------- Search
SearchRLock(t) ==
    /\ pc[t] = "search_rlock"
    /\ RLock(call[t].m, t)
    /\ Goto(t, "search_read")
    /\ UNCHANGED <<data, call, loc, ret, g>>

SearchRead(t) ==
    /\ pc[t] = "search_read"
    /\ loc' = [loc EXCEPT ![t].v = Lookup(data[call[t].m], call[t].k),
                          ![t].ok = call[t].k \in DOMAIN data[call[t].m]]
    /\ Goto(t, "search_runlock")
    /\ UNCHANGED <<data, wr, rd, call, ret, g>>

SearchRUnlock(t) ==
    /\ pc[t] = "search_runlock"
    /\ RUnlock(call[t].m, t)
    /\ Goto(t, "search_ret")
    /\ UNCHANGED <<data, call, loc, ret, g>>

\* ---------------------------------------------------------------- Contains
ContainsRLock(t) ==
    /\ pc[t] = "contains_rlock"
    /\ RLock(call[t].m, t)
    /\ Goto(t, "contains_read")
    /\ UNCHANGED <<data, call, loc, ret, g>>

ContainsRead(t) ==
    /\ pc[t] = "contains_read"
    /\ loc' = [loc EXCEPT ![t].ok = call[t].k \in DOMAIN data[call[t].m]]
    /\ Goto(t, "contains_runlock")
    /\ UNCHANGED <<data, wr, rd, call, ret, g>>

ContainsRUnlock(t) ==
    /\ pc[t] = "contains_runlock"
    /\ RUnlock(call[t].m, t)
    /\ Goto(t, "contains_ret")
    /\ UNCHANGED <<data, call, loc, ret, g>>

\* ------------------------------------------------------ doSetWithLockCheck
\* m.mu.Lock()
doSetWithLockCheckLock(t) ==
    /\ pc[t] = "dsc_lock"
    /\ Lock(call[t].m, t)
    /\ Goto(t, "dsc_check")
    /\ UNCHANGED <<data, call, loc, ret, g>>

\* A doSetWithLockCheck without the re-check under the lock (check, then lock,
\* then set).
doSetWithLockCheckNoRecheck(t) ==
    /\ pc[t] = "dsc_check"
    /\ Goto(t, IF IsFn(loc[t].value) THEN "dsc_callf" ELSE "dsc_store")
    /\ UNCHANGED <<data, wr, rd, call, loc, ret, g>>

\* A doSetWithLockCheck without the type assertion: <value> is stored as given.
doSetWithLockCheckStoresAsGiven(t) ==
    /\ pc[t] = "dsc_check"
    /\ IF call[t].k \in DOMAIN data[call[t].m]
         THEN /\ loc' = [loc EXCEPT ![t].r = data[call[t].m][call[t].k]]
              /\ Goto(t, "dsc_unlock")
         ELSE /\ loc' = loc
              /\ Goto(t, "dsc_store")
    /\ UNCHANGED <<data, wr, rd, call, ret, g>>

\* if v, ok := m.data[key]; ok { return v }, then the type assertion on <value>
doSetWithLockCheckCheck(t) ==
    /\ pc[t] = "dsc_check"
    /\ IF call[t].k \in DOMAIN data[call[t].m]
         THEN /\ loc' = [loc EXCEPT ![t].r = data[call[t].m][call[t].k]]
              /\ Goto(t, "dsc_unlock")
         ELSE /\ loc' = loc
              /\ Goto(t, IF IsFn(loc[t].value) THEN "dsc_callf" ELSE "dsc_store")
    /\ UNCHANGED <<data, wr, rd, call, ret, g>>

\* value = f(): the function value is run by the goroutine inside the method
doSetWithLockCheckCallF(t) ==
    /\ pc[t] = "dsc_callf"
    /\ call[t].cb = "none"
    /\ loc' = [loc EXCEPT ![t].value = Apply(loc[t].value)]
    /\ IF call[t].op \in SupplierOps /\ loc[t].value = call[t].v
         THEN g' = [g EXCEPT ![t].fcalls = @ + 1,
                             ![t].flocked = t \in wr[call[t].m],
                             ![t].fabsent = call[t].k \notin DOMAIN data[call[t].m]]
         ELSE g' = g
    /\ Goto(t, "dsc_store")
    /\ UNCHANGED <<data, wr, rd, call, ret>>

\* m.data[key] = value
doSetWithLockCheckStore(t) ==
    /\ pc[t] = "dsc_store"
    /\ data' = [data EXCEPT ![call[t].m] = Put(@, call[t].k, loc[t].value)]
    /\ loc' = [loc EXCEPT ![t].r = loc[t].value]
    /\ g' = [g EXCEPT ![t].stored = TRUE]
    /\ Goto(t, "dsc_unlock")
    /\ UNCHANGED <<wr, rd, call, ret>>

\* the deferred m.mu.Unlock()
doSetWithLockCheckUnlock(t) ==
    /\ pc[t] = "dsc_unlock"
    /\ Unlock(call[t].m, t)
    /\ Goto(t, "dsc_ret")
    /\ UNCHANGED <<data, call, loc, ret, g>>

\* ---------------------------------------------------------------- GetOrSet
CallGetOrSet(t) ==
    \E op \in GetOrSetOps, k \in HotKeys, x \in Vals :
        Begin(t, Args(op, "a", k, IF op = "GetOrSet" THEN x ELSE Fn(x)), "search_rlock")

ReturnValue(t, v) == Return(t, [NoRet EXCEPT !.val = v])

\* if v, ok := m.Search(key); !ok { return m.doSetWithLockCheck(key, value) }
\* else { return v }
GetOrSet(t) ==
    /\ pc[t] = "search_ret"
    /\ call[t].op = "GetOrSet"
    /\ IF loc[t].ok
         THEN /\ ReturnValue(t, loc[t].v)
              /\ loc' = loc
         ELSE /\ loc' = [loc EXCEPT ![t].value = call[t].v]
              /\ Goto(t, "dsc_lock")
              /\ ret' = ret
    /\ UNCHANGED <<data, wr, rd, call, g>>

\* A GetOrSetFunc that passes f itself, as GetOrSetFuncLock does.
GetOrSetFuncPassesF(t) ==
    /\ pc[t] = "search_ret"
    /\ call[t].op = "GetOrSetFunc"
    /\ IF loc[t].ok
         THEN /\ Return(t, [NoRet EXCEPT !.val = loc[t].v])
              /\ loc' = loc
         ELSE /\ loc' = [loc EXCEPT ![t].value = call[t].v]
              /\ Goto(t, "dsc_lock")
              /\ ret' = ret
    /\ UNCHANGED <<data, wr, rd, call, g>>

\* ... return m.doSetWithLockCheck(key, f()): f runs before the call
GetOrSetFunc(t) ==
    /\ pc[t] = "search_ret"
    /\ call[t].op = "GetOrSetFunc"
    /\ IF loc[t].ok
         THEN /\ ReturnValue(t, loc[t].v)
              /\ UNCHANGED <<loc, g>>
         ELSE /\ loc' = [loc EXCEPT ![t].value = Apply(call[t].v)]
              /\ g' = [g EXCEPT ![t].fcalls = @ + 1,
                                ![t].flocked = t \in wr[call[t].m],
                                ![t].fabsent = call[t].k \notin DOMAIN data[call[t].m]]
              /\ Goto(t, "dsc_lock")
              /\ ret' = ret
    /\ UNCHANGED <<data, wr, rd, call>>

\* A GetOrSetFuncLock that runs f before the call, as GetOrSetFunc does.
GetOrSetFuncLockRunsF(t) ==
    /\ pc[t] = "search_ret"
    /\ call[t].op = "GetOrSetFuncLock"
    /\ IF loc[t].ok
         THEN /\ Return(t, [NoRet EXCEPT !.val = loc[t].v])
              /\ UNCHANGED <<loc, g>>
         ELSE /\ loc' = [loc EXCEPT ![t].value = Apply(call[t].v)]
              /\ g' = [g EXCEPT ![t].fcalls = @ + 1,
                                ![t].flocked = t \in wr[call[t].m],
                                ![t].fabsent = call[t].k \notin DOMAIN data[call[t].m]]
              /\ Goto(t, "dsc_lock")
              /\ ret' = ret
    /\ UNCHANGED <<data, wr, rd, call>>

\* ... return m.doSetWithLockCheck(key, f): f itself is passed
GetOrSetFuncLock(t) ==
    /\ pc[t] = "search_ret"
    /\ call[t].op = "GetOrSetFuncLock"
    /\ IF loc[t].ok
         THEN /\ ReturnValue(t, loc[t].v)
              /\ loc' = loc
         ELSE /\ loc' = [loc EXCEPT ![t].value = call[t].v]
              /\ Goto(t, "dsc_lock")
              /\ ret' = ret
    /\ UNCHANGED <<data, wr, rd, call, g>>

\* the return of doSetWithLockCheck's result by the three methods
GetOrSetReturn(t) ==
    /\ pc[t] = "dsc_ret"
    /\ call[t].op \in GetOrSetOps
    /\ ReturnValue(t, loc[t].r)
    /\ UNCHANGED <<data, wr, rd, call, loc, g>>

\* ----------------------------------------------------------- SetIfNotExist
CallSetIfNotExist(t) ==
    \E op \in SetIfNotExistOps, k \in HotKeys, x \in Vals :
        Begin(t, Args(op, "a", k, IF op = "SetIfNotExist" THEN x ELSE Fn(x)), "contains_rlock")

\* Goroutines that all use the variants running the supplier under the lock.
CallFuncLock(t) ==
    \E op \in FuncLockOps, k \in HotKeys, x \in Vals :
        Begin(t, Args(op, "a", k, Fn(x)),
              IF op = "GetOrSetFuncLock" THEN "search_rlock" ELSE "contains_rlock")

ReturnFalse(t) == Return(t, NoRet)

\* A SetIfNotExist that calls doSetWithLockCheck whatever Contains said.
SetIfNotExistSkipsContains(t) ==
    /\ pc[t] = "contains_ret"
    /\ call[t].op = "SetIfNotExist"
    /\ loc' = [loc EXCEPT ![t].value = call[t].v]
    /\ Goto(t, "dsc_lock")
    /\ UNCHANGED <<data, wr, rd, call, ret, g>>

\* if !m.Contains(key) { m.doSetWithLockCheck(key, value); return true }
\* return false
SetIfNotExist(t) ==
    /\ pc[t] = "contains_ret"
    /\ call[t].op = "SetIfNotExist"
    /\ IF loc[t].ok
         THEN /\ ReturnFalse(t)
              /\ loc' = loc
         ELSE /\ loc' = [loc EXCEPT ![t].value = call[t].v]
              /\ Goto(t, "dsc_lock")
              /\ ret' = ret
    /\ UNCHANGED <<data, wr, rd, call, g>>

SetIfNotExistFunc(t) ==
    /\ pc[t] = "contains_ret"
    /\ call[t].op = "SetIfNotExistFunc"
    /\ IF loc[t].ok
         THEN /\ ReturnFalse(t)
              /\ UNCHANGED <<loc, g>>
         ELSE /\ loc' = [loc EXCEPT ![t].value = Apply(call[t].v)]
              /\ g' = [g EXCEPT ![t].fcalls = @ + 1,
                                ![t].flocked = t \in wr[call[t].m],
                                ![t].fabsent = call[t].k \notin DOMAIN data[call[t].m]]
              /\ Goto(t, "dsc_lock")
              /\ ret' = ret
    /\ UNCHANGED <<data, wr, rd, call>>

SetIfNotExistFuncLock(t) ==
    /\ pc[t] = "contains_ret"
    /\ call[t].op = "SetIfNotExistFuncLock"
    /\ IF loc[t].ok
         THEN /\ ReturnFalse(t)
              /\ loc' = loc
         ELSE /\ loc' = [loc EXCEPT ![t].value = call[t].v]
              /\ Goto(t, "dsc_lock")
              /\ ret' = ret
    /\ UNCHANGED <<data, wr, rd, call, g>>

\* the "return true" after doSetWithLockCheck, whatever it did
SetIfNotExistReturn(t) ==
    /\ pc[t] = "dsc_ret"
    /\ call[t].op \in SetIfNotExistOps
    /\ Return(t, [NoRet EXCEPT !.ok = TRUE])
    /\ UNCHANGED <<data, wr, rd, call, loc, g>>

\* --------------------------------------------------------------------- Set
CallSet(t) ==
    \E k \in HotKeys, x \in Vals :
        Begin(t, Args("Set", "a", k, x), "set_lock")

SetLock(t) ==
    /\ pc[t] = "set_lock"
    /\ Lock(call[t].m, t)
    /\ Goto(t, "set_write")
    /\ UNCHANGED <<data, call, loc, ret, g>>

\* m.data[key] = val
SetWrite(t) ==
    /\ pc[t] = "set_write"
    /\ data' = [data EXCEPT ![call[t].m] = Put(@, call[t].k, call[t].v)]
    /\ Goto(t, "set_unlock")
    /\ UNCHANGED <<wr, rd, call, loc, ret, g>>

SetUnlock(t) ==
    /\ pc[t] = "set_unlock"
    /\ Unlock(call[t].m, t)
    /\ Goto(t, "done")
    /\ UNCHANGED <<data, call, loc, ret, g>>

\* --------------------------------------------------------------------- Get
CallGet(t) ==
    \E k \in HotKeys :
        Begin(t, Args("Get", "a", k, Nil), "get_rlock")

\* A Get that reads without taking the shared lock.
GetSkipsRLock(t) ==
    /\ pc[t] = "get_rlock"
    /\ Goto(t, "get_read")
    /\ UNCHANGED <<data, wr, rd, call, loc, ret, g>>

GetRLock(t) ==
    /\ pc[t] = "get_rlock"
    /\ RLock(call[t].m, t)
    /\ Goto(t, "get_read")
    /\ UNCHANGED <<data, call, loc, ret, g>>

\* val, _ := m.data[key]
GetRead(t) ==
    /\ pc[t] = "get_read"
    /\ loc' = [loc EXCEPT ![t].v = Lookup(data[call[t].m], call[t].k)]
    /\ Goto(t, "get_runlock")
    /\ UNCHANGED <<data, wr, rd, call, ret, g>>

GetRUnlock(t) ==
    /\ pc[t] = "get_runlock"
    /\ RUnlock(call[t].m, t)
    /\ Goto(t, "get_ret")
    /\ UNCHANGED <<data, call, loc, ret, g>>

\* return val; g[t].present notes whether the key is in the store right then
GetReturn(t) ==
    /\ pc[t] = "get_ret"
    /\ Return(t, [NoRet EXCEPT !.val = loc[t].v])
    /\ g' = [g EXCEPT ![t].present = call[t].k \in DOMAIN data[call[t].m]]
    /\ UNCHANGED <<data, wr, rd, call, loc>>

\* ------------------------------------------------------------------ Remove
CallRemove(t) ==
    \E k \in HotKeys :
        Begin(t, Args("Remove", "a", k, Nil), "remove_lock")

\* A Remove that forgets m.mu.Lock().
RemoveSkipsLock(t) ==
    /\ pc[t] = "remove_lock"
    /\ Goto(t, "remove_read")
    /\ UNCHANGED <<data, wr, rd, call, loc, ret, g>>

RemoveLock(t) ==
    /\ pc[t] = "remove_lock"
    /\ Lock(call[t].m, t)
    /\ Goto(t, "remove_read")
    /\ UNCHANGED <<data, call, loc, ret, g>>

\* val, exists := m.data[key]
RemoveRead(t) ==
    /\ pc[t] = "remove_read"
    /\ loc' = [loc EXCEPT ![t].v = Lookup(data[call[t].m], call[t].k),
                          ![t].ok = call[t].k \in DOMAIN data[call[t].m]]
    /\ Goto(t, "remove_delete")
    /\ UNCHANGED <<data, wr, rd, call, ret, g>>

\* if exists { delete(m.data, key) }; deleting a key that is gone is a no-op
RemoveDelete(t) ==
    /\ pc[t] = "remove_delete"
    /\ data' = [data EXCEPT ![call[t].m] =
                    IF loc[t].ok /\ call[t].k \in DOMAIN @ THEN Del(@, call[t].k) ELSE @]
    /\ Goto(t, "remove_unlock")
    /\ UNCHANGED <<wr, rd, call, loc, ret, g>>

RemoveUnlock(t) ==
    /\ pc[t] = "remove_unlock"
    /\ Unlock(call[t].m, t)
    /\ Goto(t, "remove_ret")
    /\ UNCHANGED <<data, call, loc, ret, g>>

\* return val
RemoveReturn(t) ==
    /\ pc[t] = "remove_ret"
    /\ Return(t, [NoRet EXCEPT !.val = loc[t].v])
    /\ UNCHANGED <<data, wr, rd, call, loc, g>>

\* -------------------------------------------------------------------- Sets
\* The maps given to Sets: every key, all with one value.
Batches == {[k \in Vals |-> x] : x \in Vals}

CallSets(t) ==
    \E b \in Batches :
        Begin(t, [Args("Sets", "a", Nil, Nil) EXCEPT !.b = b], "sets_lock")

\* A Sets that forgets m.mu.Lock().
SetsSkipsLock(t) ==
    /\ pc[t] = "sets_lock"
    /\ loc' = [loc EXCEPT ![t].rest = DOMAIN call[t].b]
    /\ g' = [g EXCEPT ![t].pre = data[call[t].m]]
    /\ Goto(t, "sets_loop")
    /\ UNCHANGED <<data, wr, rd, call, ret>>

\* m.mu.Lock(); the range loop starts over the given map
SetsLock(t) ==
    /\ pc[t] = "sets_lock"
    /\ Lock(call[t].m, t)
    /\ loc' = [loc EXCEPT ![t].rest = DOMAIN call[t].b]
    /\ g' = [g EXCEPT ![t].pre = data[call[t].m]]
    /\ Goto(t, "sets_loop")
    /\ UNCHANGED <<data, call, ret>>

\* one iteration, in the order the range yields: m.data[k] = v
SetsStep(t) ==
    /\ pc[t] = "sets_loop"
    /\ \E k \in loc[t].rest :
           /\ data' = [data EXCEPT ![call[t].m] = Put(@, k, call[t].b[k])]
           /\ loc' = [loc EXCEPT ![t].rest = @ \ {k}]
    /\ UNCHANGED <<wr, rd, pc, call, ret, g>>

SetsUnlock(t) ==
    /\ pc[t] = "sets_loop"
    /\ loc[t].rest = {}
    /\ Unlock(call[t].m, t)
    /\ g' = [g EXCEPT ![t].post = data[call[t].m]]
    /\ Goto(t, "done")
    /\ UNCHANGED <<data, call, loc, ret>>

\* ----------------------------------------------------------------- Removes
\* The slice given to Removes: every key, in ascending order.
AllKeys == [i \in 1..MaxVal |-> i]

CallRemoves(t) ==
    Begin(t, [Args("Removes", "a", Nil, Nil) EXCEPT !.ks = AllKeys], "removes_lock")

RemovesLock(t) ==
    /\ pc[t] = "removes_lock"
    /\ Lock(call[t].m, t)
    /\ loc' = [loc EXCEPT ![t].keys = call[t].ks]
    /\ g' = [g EXCEPT ![t].pre = data[call[t].m]]
    /\ Goto(t, "removes_loop")
    /\ UNCHANGED <<data, call, ret>>

\* one iteration, in slice order: delete(m.data, key)
RemovesStep(t) ==
    /\ pc[t] = "removes_loop"
    /\ loc[t].keys # << >>
    /\ data' = [data EXCEPT ![call[t].m] = Del(@, Head(loc[t].keys))]
    /\ loc' = [loc EXCEPT ![t].keys = Tail(@)]
    /\ UNCHANGED <<wr, rd, pc, call, ret, g>>

RemovesUnlock(t) ==
    /\ pc[t] = "removes_loop"
    /\ loc[t].keys = << >>
    /\ Unlock(call[t].m, t)
    /\ g' = [g EXCEPT ![t].post = data[call[t].m]]
    /\ Goto(t, "done")
    /\ UNCHANGED <<data, call, loc, ret>>

\* -------------------------------------------------------------------- Flip
CallFlip(t) == Begin(t, Args("Flip", "a", Nil, Nil), "flip_lock")

\* m.mu.Lock(); n := make(map, len(m.data)); the range loop starts
FlipLock(t) ==
    /\ pc[t] = "flip_lock"
    /\ Lock(call[t].m, t)
    /\ loc' = [loc EXCEPT ![t].rest = DOMAIN data[call[t].m], ![t].n = EmptyStore]
    /\ g' = [g EXCEPT ![t].pre = data[call[t].m]]
    /\ Goto(t, "flip_loop")
    /\ UNCHANGED <<data, call, ret>>

\* A Flip that copies the entries without exchanging key and value.
FlipStepCopies(t) ==
    /\ pc[t] = "flip_loop"
    /\ \E k \in loc[t].rest :
           loc' = [loc EXCEPT ![t].n = Put(@, k, data[call[t].m][k]),
                              ![t].rest = @ \ {k}]
    /\ UNCHANGED <<data, wr, rd, pc, call, ret, g>>

\* one iteration, in the order the range yields: n[v] = k
FlipStep(t) ==
    /\ pc[t] = "flip_loop"
    /\ \E k \in loc[t].rest :
           loc' = [loc EXCEPT ![t].n = Put(@, data[call[t].m][k], k),
                              ![t].rest = @ \ {k}]
    /\ UNCHANGED <<data, wr, rd, pc, call, ret, g>>

\* A Flip that writes n into the old map instead of replacing it.
FlipAssignKeepsOld(t) ==
    /\ pc[t] = "flip_loop"
    /\ loc[t].rest = {}
    /\ data' = [data EXCEPT ![call[t].m] =
                    [k \in (DOMAIN @) \cup (DOMAIN loc[t].n) |->
                        IF k \in DOMAIN loc[t].n THEN loc[t].n[k] ELSE @[k]]]
    /\ Goto(t, "flip_unlock")
    /\ UNCHANGED <<wr, rd, call, loc, ret, g>>

\* m.data = n
FlipAssign(t) ==
    /\ pc[t] = "flip_loop"
    /\ loc[t].rest = {}
    /\ data' = [data EXCEPT ![call[t].m] = loc[t].n]
    /\ Goto(t, "flip_unlock")
    /\ UNCHANGED <<wr, rd, call, loc, ret, g>>

\* the deferred m.mu.Unlock()
FlipUnlock(t) ==
    /\ pc[t] = "flip_unlock"
    /\ Unlock(call[t].m, t)
    /\ g' = [g EXCEPT ![t].post = data[call[t].m]]
    /\ Goto(t, "done")
    /\ UNCHANGED <<data, call, loc, ret>>

\* ------------------------------------------------------------------- Merge
CallMergeInto(t, m, o) ==
    Begin(t, [Args("Merge", m, Nil, Nil) EXCEPT !.o = o], "merge_lock")

\* m.mu.Lock()
MergeLock(t) ==
    /\ pc[t] = "merge_lock"
    /\ Lock(call[t].m, t)
    /\ g' = [g EXCEPT ![t].pre = data[call[t].m]]
    /\ Goto(t, "merge_rlock")
    /\ UNCHANGED <<data, call, loc, ret>>

\* A Merge that takes other's shared lock without comparing other with m.
MergeRLockAlways(t) ==
    /\ pc[t] = "merge_rlock"
    /\ RLock(call[t].o, t)
    /\ loc' = [loc EXCEPT ![t].rest = DOMAIN data[call[t].o]]
    /\ g' = [g EXCEPT ![t].opre = data[call[t].o]]
    /\ Goto(t, "merge_loop")
    /\ UNCHANGED <<data, call, ret>>

\* if other != m { other.mu.RLock() }; the range loop over other.data starts
MergeRLock(t) ==
    /\ pc[t] = "merge_rlock"
    /\ IF call[t].o # call[t].m
         THEN RLock(call[t].o, t)
         ELSE UNCHANGED <<wr, rd>>
    /\ loc' = [loc EXCEPT ![t].rest = DOMAIN data[call[t].o]]
    /\ g' = [g EXCEPT ![t].opre = data[call[t].o]]
    /\ Goto(t, "merge_loop")
    /\ UNCHANGED <<data, call, ret>>

\* A Merge that keeps m's own value of a key both maps hold.
MergeStepKeepsOwn(t) ==
    /\ pc[t] = "merge_loop"
    /\ \E k \in loc[t].rest :
           /\ data' = [data EXCEPT ![call[t].m] =
                           IF k \in DOMAIN @ THEN @ ELSE Put(@, k, data[call[t].o][k])]
           /\ loc' = [loc EXCEPT ![t].rest = @ \ {k}]
    /\ UNCHANGED <<wr, rd, pc, call, ret, g>>

\* one iteration, in the order the range yields: m.data[k] = v
MergeStep(t) ==
    /\ pc[t] = "merge_loop"
    /\ \E k \in loc[t].rest :
           /\ data' = [data EXCEPT ![call[t].m] = Put(@, k, data[call[t].o][k])]
           /\ loc' = [loc EXCEPT ![t].rest = @ \ {k}]
    /\ UNCHANGED <<wr, rd, pc, call, ret, g>>

\* the deferred other.mu.RUnlock(), which runs first
MergeRUnlock(t) ==
    /\ pc[t] = "merge_loop"
    /\ loc[t].rest = {}
    /\ IF call[t].o # call[t].m
         THEN RUnlock(call[t].o, t)
         ELSE UNCHANGED <<wr, rd>>
    /\ Goto(t, "merge_unlock")
    /\ UNCHANGED <<data, call, loc, ret, g>>

\* the deferred m.mu.Unlock()
MergeUnlock(t) ==
    /\ pc[t] = "merge_unlock"
    /\ Unlock(call[t].m, t)
    /\ g' = [g EXCEPT ![t].post = data[call[t].m]]
    /\ Goto(t, "done")
    /\ UNCHANGED <<data, call, loc, ret>>

\* --------------------------------------------------------------------- Map
CallMap(t) == Begin(t, Args("Map", "a", Nil, Nil), "map_rlock")

\* data := make(map); m.mu.RLock(); the range loop starts
MapRLock(t) ==
    /\ pc[t] = "map_rlock"
    /\ RLock(call[t].m, t)
    /\ loc' = [loc EXCEPT ![t].rest = DOMAIN data[call[t].m], ![t].n = EmptyStore]
    /\ Goto(t, "map_loop")
    /\ UNCHANGED <<data, call, ret, g>>

\* one iteration: data[k] = v.  A key the range has not reached yet and that
\* is deleted meanwhile is not produced.
MapStep(t) ==
    /\ pc[t] = "map_loop"
    /\ \E k \in loc[t].rest :
           loc' = [loc EXCEPT ![t].n = IF k \in DOMAIN data[call[t].m]
                                         THEN Put(@, k, data[call[t].m][k])
                                         ELSE @,
                              ![t].rest = @ \ {k}]
    /\ UNCHANGED <<data, wr, rd, pc, call, ret, g>>

MapRUnlock(t) ==
    /\ pc[t] = "map_loop"
    /\ loc[t].rest = {}
    /\ RUnlock(call[t].m, t)
    /\ Goto(t, "map_ret")
    /\ UNCHANGED <<data, call, loc, ret, g>>

\* A Map that returns m.data itself.
MapReturnsStore(t) ==
    /\ pc[t] = "map_ret"
    /\ Return(t, [NoRet EXCEPT !.map = loc[t].n, !.ref = call[t].m])
    /\ UNCHANGED <<data, wr, rd, call, loc, g>>

\* return data
MapReturn(t) ==
    /\ pc[t] = "map_ret"
    /\ Return(t, [NoRet EXCEPT !.map = loc[t].n])
    /\ UNCHANGED <<data, wr, rd, call, loc, g>>

\* -------------------------------------------------------------------- Size
CallSize(t) == Begin(t, Args("Size", "a", Nil, Nil), "size_rlock")

SizeRLock(t) ==
    /\ pc[t] = "size_rlock"
    /\ RLock(call[t].m, t)
    /\ Goto(t, "size_read")
    /\ UNCHANGED <<data, call, loc, ret, g>>

\* length := len(m.data)
SizeRead(t) ==
    /\ pc[t] = "size_read"
    /\ loc' = [loc EXCEPT ![t].v = Cardinality(DOMAIN data[call[t].m])]
    /\ Goto(t, "size_runlock")
    /\ UNCHANGED <<data, wr, rd, call, ret, g>>

SizeRUnlock(t) ==
    /\ pc[t] = "size_runlock"
    /\ RUnlock(call[t].m, t)
    /\ Goto(t, "size_ret")
    /\ UNCHANGED <<data, call, loc, ret, g>>

SizeReturn(t) ==
    /\ pc[t] = "size_ret"
    /\ Return(t, [NoRet EXCEPT !.val = loc[t].v])
    /\ UNCHANGED <<data, wr, rd, call, loc, g>>

\* ----------------------------------------------------------------- IsEmpty
\* m.mu.RLock()
IsEmptyRLock(t) ==
    /\ pc[t] = "isempty_rlock"
    /\ RLock(call[t].m, t)
    /\ Goto(t, "isempty_read")
    /\ UNCHANGED <<data, call, loc, ret, g>>

\* empty := len(m.data) == 0
IsEmptyRead(t) ==
    /\ pc[t] = "isempty_read"
    /\ loc' = [loc EXCEPT ![t].ok = (Cardinality(DOMAIN data[call[t].m]) = 0)]
    /\ Goto(t, "isempty_runlock")
    /\ UNCHANGED <<data, wr, rd, call, ret, g>>

\* m.mu.RUnlock()
IsEmptyRUnlock(t) ==
    /\ pc[t] = "isempty_runlock"
    /\ RUnlock(call[t].m, t)
    /\ Goto(t, "isempty_ret")
    /\ UNCHANGED <<data, call, loc, ret, g>>

\* return empty
IsEmptyReturn(t) ==
    /\ pc[t] = "isempty_ret"
    /\ Return(t, [NoRet EXCEPT !.ok = loc[t].ok])
    /\ UNCHANGED <<data, wr, rd, call, loc, g>>

\* ------------------------------------------------------------ NewFromArray
\* The slices given to NewFromArray: up to ArgLen keys and up to ArgLen values.
ArgLen == MaxVal
SeqsOf(S) == UNION {[1..n -> S] : n \in 0..ArgLen}

\* m := make(map); l := len(values); the range loop over keys starts
NewFromArrayMake(t) ==
    /\ pc[t] = "nfa_make"
    /\ loc' = [loc EXCEPT ![t].n = EmptyStore, ![t].keys = call[t].ks]
    /\ Goto(t, "nfa_loop")
    /\ UNCHANGED <<data, wr, rd, call, ret, g>>

\* A NewFromArray that leaves out the keys that have no value.
NewFromArrayStepSkips(t) ==
    /\ pc[t] = "nfa_loop"
    /\ loc[t].keys # << >>
    /\ LET i == Len(call[t].ks) - Len(loc[t].keys) + 1
       IN loc' = [loc EXCEPT ![t].n = IF i <= Len(call[t].vs)
                                        THEN Put(@, Head(loc[t].keys), call[t].vs[i])
                                        ELSE @,
                             ![t].keys = Tail(@)]
    /\ UNCHANGED <<data, wr, rd, pc, call, ret, g>>

\* one iteration, in slice order: m[k] = values[i] if i < l, else m[k] = nil
\* (i counts from 1 here)
NewFromArrayStep(t) ==
    /\ pc[t] = "nfa_loop"
    /\ loc[t].keys # << >>
    /\ LET i == Len(call[t].ks) - Len(loc[t].keys) + 1
       IN loc' = [loc EXCEPT ![t].n = Put(@, Head(loc[t].keys),
                                          IF i <= Len(call[t].vs)
                                            THEN call[t].vs[i] ELSE Nil),
                             ![t].keys = Tail(@)]
    /\ UNCHANGED <<data, wr, rd, pc, call, ret, g>>

\* return &Map{mu: rwmutex.New(), data: m}: container call[t].m is the new map
NewFromArrayReturn(t) ==
    /\ pc[t] = "nfa_loop"
    /\ loc[t].keys = << >>
    /\ data' = [data EXCEPT ![call[t].m] = loc[t].n]
    /\ wr' = [wr EXCEPT ![call[t].m] = {}]
    /\ rd' = [rd EXCEPT ![call[t].m] = {}]
    /\ Return(t, [NoRet EXCEPT !.map = loc[t].n])
    /\ UNCHANGED <<call, loc, g>>

\* Search's return v, ok
SearchReturn(t) ==
    /\ pc[t] = "search_ret"
    /\ call[t].op = "Search"
    /\ Return(t, [NoRet EXCEPT !.ok = loc[t].ok, !.val = loc[t].v])
    /\ UNCHANGED <<data, wr, rd, call, loc, g>>

\* Contains's return exists
ContainsReturn(t) ==
    /\ pc[t] = "contains_ret"
    /\ call[t].op = "Contains"
    /\ Return(t, [NoRet EXCEPT !.ok = loc[t].ok])
    /\ UNCHANGED <<data, wr, rd, call, loc, g>>

\* ---------------------------------------------------------------- LockFunc
\* The callbacks given to LockFunc and RLockFunc here work on the map they are
\* handed (LockFunc's writes m[k] = v, RLockFunc's reads m[k]) and then
\* return or panic.
Outcomes == {"return", "panic"}

CallLockFunc(t) ==
    \E cb \in Outcomes, k \in HotKeys, v \in Vals :
        Begin(t, [Args("LockFunc", "a", k, v) EXCEPT !.cb = cb], "lockfunc_lock")

\* A LockFunc that calls f without taking the lock.
LockFuncSkipsLock(t) ==
    /\ pc[t] = "lockfunc_lock"
    /\ Goto(t, "lockfunc_f")
    /\ UNCHANGED <<data, wr, rd, call, loc, ret, g>>

\* m.mu.Lock()
LockFuncLock(t) ==
    /\ pc[t] = "lockfunc_lock"
    /\ Lock(call[t].m, t)
    /\ Goto(t, "lockfunc_f")
    /\ UNCHANGED <<data, call, loc, ret, g>>

\* f(m.data), for a callback that writes the map and returns or panics
LockFuncCallback(t) ==
    /\ pc[t] = "lockfunc_f"
    /\ call[t].cb \in Outcomes
    /\ data' = [data EXCEPT ![call[t].m] = Put(@, call[t].k, call[t].v)]
    /\ Goto(t, "lockfunc_unlock")
    /\ UNCHANGED <<wr, rd, call, loc, ret, g>>

\* A LockFunc whose Unlock is not deferred: a panic of f skips it.
LockFuncUnlockNotDeferred(t) ==
    /\ pc[t] = "lockfunc_unlock"
    /\ IF call[t].cb = "panic"
         THEN UNCHANGED <<wr, rd>>
         ELSE Unlock(call[t].m, t)
    /\ Goto(t, IF call[t].cb = "panic" THEN "panicked" ELSE "done")
    /\ UNCHANGED <<data, call, loc, ret, g>>

\* the deferred m.mu.Unlock(), run when f returns and when f panics; the
\* panic then goes on to the caller
LockFuncUnlock(t) ==
    /\ pc[t] = "lockfunc_unlock"
    /\ Unlock(call[t].m, t)
    /\ Goto(t, IF call[t].cb = "panic" THEN "panicked" ELSE "done")
    /\ UNCHANGED <<data, call, loc, ret, g>>

\* --------------------------------------------------------------- RLockFunc
CallRLockFunc(t) ==
    \E cb \in Outcomes, k \in HotKeys :
        Begin(t, [Args("RLockFunc", "a", k, Nil) EXCEPT !.cb = cb], "rlockfunc_rlock")

\* m.mu.RLock()
RLockFuncRLock(t) ==
    /\ pc[t] = "rlockfunc_rlock"
    /\ RLock(call[t].m, t)
    /\ Goto(t, "rlockfunc_f")
    /\ UNCHANGED <<data, call, loc, ret, g>>

\* f(m.data), for a callback that reads the map and returns or panics
RLockFuncCallback(t) ==
    /\ pc[t] = "rlockfunc_f"
    /\ call[t].cb \in Outcomes
    /\ loc' = [loc EXCEPT ![t].v = Lookup(data[call[t].m], call[t].k)]
    /\ Goto(t, "rlockfunc_runlock")
    /\ UNCHANGED <<data, wr, rd, call, ret, g>>

\* the deferred m.mu.RUnlock(), run when f returns and when f panics
RLockFuncRUnlock(t) ==
    /\ pc[t] = "rlockfunc_runlock"
    /\ RUnlock(call[t].m, t)
    /\ Goto(t, IF call[t].cb = "panic" THEN "panicked" ELSE "done")
    /\ UNCHANGED <<data, call, loc, ret, g>>

\* ---------------------------------------------------------------- Iterator
\* The visitor given to Iterator returns false for the entry of key call[t].k
\* and true for every other entry (always true when call[t].k is nil).
CallIterator(t) ==
    \E k \in U : Begin(t, Args("Iterator", "a", k, Nil), "iter_rlock")

\* m.mu.RLock(); the range loop over m.data starts
IteratorRLock(t) ==
    /\ pc[t] = "iter_rlock"
    /\ RLock(call[t].m, t)
    /\ loc' = [loc EXCEPT ![t].rest = DOMAIN data[call[t].m],
                          ![t].keys = << >>, ![t].n = EmptyStore]
    /\ g' = [g EXCEPT ![t].pre = data[call[t].m]]
    /\ Goto(t, "iter_loop")
    /\ UNCHANGED <<data, call, ret>>

\* An Iterator that goes on whatever the visitor returns.
IteratorStepNoBreak(t) ==
    /\ pc[t] = "iter_loop"
    /\ \E k \in loc[t].rest :
           loc' = [loc EXCEPT ![t].keys = Append(@, k),
                              ![t].n = Put(@, k, data[call[t].m][k]),
                              ![t].rest = @ \ {k}]
    /\ UNCHANGED <<data, wr, rd, pc, call, ret, g>>

\* one iteration, in the order the range yields: if !f(k, v) { break };
\* loc[t].keys lists the keys the visitor was called with, loc[t].n the
\* entries it was given
IteratorStep(t) ==
    /\ pc[t] = "iter_loop"
    /\ call[t].cb = "none"
    /\ \E k \in loc[t].rest :
           /\ loc' = [loc EXCEPT ![t].keys = Append(@, k),
                                 ![t].n = Put(@, k, data[call[t].m][k]),
                                 ![t].rest = @ \ {k}]
           /\ Goto(t, IF k = call[t].k THEN "iter_runlock" ELSE "iter_loop")
    /\ UNCHANGED <<data, wr, rd, call, ret, g>>

\* the range loop ends
IteratorEnd(t) ==
    /\ pc[t] = "iter_loop"
    /\ loc[t].rest = {}
    /\ Goto(t, "iter_runlock")
    /\ UNCHANGED <<data, wr, rd, call, loc, ret, g>>

\* the deferred m.mu.RUnlock()
IteratorRUnlock(t) ==
    /\ pc[t] = "iter_runlock"
    /\ RUnlock(call[t].m, t)
    /\ g' = [g EXCEPT ![t].post = data[call[t].m]]
    /\ Goto(t, "done")
    /\ UNCHANGED <<data, call, loc, ret>>

\* ------------------------------------------------------------------- Clone
\* return NewFrom(m.Map()): the steps are those of Map, and the new container
\* keeps the map that Map returned as its store.
CallClone(t) == Begin(t, Args("Clone", "a", Nil, Nil), "map_rlock")

\* -------------------------------------------------------------------- Keys
CallKeys(t) == Begin(t, Args("Keys", "a", Nil, Nil), "keys_rlock")

\* m.mu.RLock(); keys := make([]interface{}, 0); the range loop starts
KeysRLock(t) ==
    /\ pc[t] = "keys_rlock"
    /\ RLock(call[t].m, t)
    /\ loc' = [loc EXCEPT ![t].rest = DOMAIN data[call[t].m],
                          ![t].keys = << >>, ![t].n = << >>]
    /\ Goto(t, "keys_loop")
    /\ UNCHANGED <<data, call, ret, g>>

\* one iteration, in the order the range yields: keys = append(keys, key)
KeysStep(t) ==
    /\ pc[t] = "keys_loop"
    /\ \E k \in loc[t].rest :
           loc' = [loc EXCEPT ![t].keys = Append(@, k),
                              ![t].n = Append(@, k),
                              ![t].rest = @ \ {k}]
    /\ UNCHANGED <<data, wr, rd, pc, call, ret, g>>

KeysRUnlock(t) ==
    /\ pc[t] = "keys_loop"
    /\ loc[t].rest = {}
    /\ RUnlock(call[t].m, t)
    /\ Goto(t, "keys_ret")
    /\ UNCHANGED <<data, call, loc, ret, g>>

\* return keys
KeysReturn(t) ==
    /\ pc[t] = "keys_ret"
    /\ Return(t, [NoRet EXCEPT !.map = loc[t].n])
    /\ UNCHANGED <<data, wr, rd, call, loc, g>>

\* ------------------------------------------------------------------ Values
CallValues(t) == Begin(t, Args("Values", "a", Nil, Nil), "values_rlock")

\* m.mu.RLock(); values := make([]interface{}, 0); the range loop starts
ValuesRLock(t) ==
    /\ pc[t] = "values_rlock"
    /\ RLock(call[t].m, t)
    /\ loc' = [loc EXCEPT ![t].rest = DOMAIN data[call[t].m],
                          ![t].keys = << >>, ![t].n = << >>]
    /\ Goto(t, "values_loop")
    /\ UNCHANGED <<data, call, ret, g>>

\* one iteration: values = append(values, value); loc[t].keys notes the key
\* of the entry
ValuesStep(t) ==
    /\ pc[t] = "values_loop"
    /\ \E k \in loc[t].rest :
           loc' = [loc EXCEPT ![t].keys = Append(@, k),
                              ![t].n = Append(@, data[call[t].m][k]),
                              ![t].rest = @ \ {k}]
    /\ UNCHANGED <<data, wr, rd, pc, call, ret, g>>

ValuesRUnlock(t) ==
    /\ pc[t] = "values_loop"
    /\ loc[t].rest = {}
    /\ RUnlock(call[t].m, t)
    /\ Goto(t, "values_ret")
    /\ UNCHANGED <<data, call, loc, ret, g>>

\* return values
ValuesReturn(t) ==
    /\ pc[t] = "values_ret"
    /\ Return(t, [NoRet EXCEPT !.map = loc[t].n])
    /\ UNCHANGED <<data, wr, rd, call, loc, g>>

\* ------------------------------------------------------- the returned copy
CopyOps == {"Map", "Clone", "Keys", "Values"}

\* The contents of the map or slice that t's call returned.
Contents(t) == IF ret[t].ref = "new" THEN ret[t].map ELSE data[ret[t].ref]

\* The caller writes nil into what it was given: x[1] = nil, at key 1 of the
\* map or at the first place of the slice.  g[t].post is what the write makes
\* of the object the call built.
CopyWrite(t) ==
    /\ pc[t] = "done"
    /\ call[t].op \in CopyOps
    /\ ~g[t].stored
    /\ \E k \in (IF call[t].op \in {"Keys", "Values"}
                   THEN {1} \cap DOMAIN Contents(t) ELSE {1}) :
           /\ IF ret[t].ref = "new"
                THEN /\ ret' = [ret EXCEPT ![t].map = Put(Contents(t), k, Nil)]
                     /\ data' = data
                ELSE /\ data' = [data EXCEPT ![ret[t].ref] = Put(Contents(t), k, Nil)]
                     /\ ret' = ret
           /\ g' = [g EXCEPT ![t].stored = TRUE, ![t].post = Put(loc[t].n, k, Nil)]
    /\ UNCHANGED <<wr, rd, pc, call, loc>>

\* ------------------------------------------------------------------- Clear
\* A Clear that forgets m.mu.Lock().
ClearSkipsLock(t) ==
    /\ pc[t] = "clear_lock"
    /\ Goto(t, "clear_make")
    /\ UNCHANGED <<data, wr, rd, call, loc, ret, g>>

\* m.mu.Lock()
ClearLock(t) ==
    /\ pc[t] = "clear_lock"
    /\ Lock(call[t].m, t)
    /\ Goto(t, "clear_make")
    /\ UNCHANGED <<data, call, loc, ret, g>>

\* m.data = make(map[interface{}]interface{})
ClearMake(t) ==
    /\ pc[t] = "clear_make"
    /\ data' = [data EXCEPT ![call[t].m] = EmptyStore]
    /\ Goto(t, "clear_unlock")
    /\ UNCHANGED <<wr, rd, call, loc, ret, g>>

\* m.mu.Unlock()
ClearUnlock(t) ==
    /\ pc[t] = "clear_unlock"
    /\ Unlock(call[t].m, t)
    /\ Goto(t, "done")
    /\ UNCHANGED <<data, call, loc, ret, g>>

\* ------------------------------------------------- calls made by callbacks
\* A callback, supplier or visitor with call[t].cb in InnerOps calls that
\* method of container call[t].o, on the goroutine that runs it, with the key
\* call[t].k and (for Set) the value InnerVal(t); then it returns (the
\* supplier returns what it would return otherwise, the visitor returns true).
InnerOps == {"Set", "Get"}
\* The outer calls that run the callback with the shared lock held, and where
\* a goroutine is while its callback runs.
OuterSharedOps == {"RLockFunc", "Iterator"}
InnerPcs == {"in_set_lock", "in_set_write", "in_set_unlock",
             "in_get_rlock", "in_get_read", "in_get_runlock", "in_ret"}
InnerVal(t) == IF IsFn(call[t].v) THEN Apply(call[t].v) ELSE call[t].v
EnterInner(t) == Goto(t, IF call[t].cb = "Set" THEN "in_set_lock" ELSE "in_get_rlock")

\* f(m.data) in LockFunc, for a callback that calls Set or Get
LockFuncCallbackCalls(t) ==
    /\ pc[t] = "lockfunc_f"
    /\ call[t].cb \in InnerOps
    /\ EnterInner(t)
    /\ UNCHANGED <<data, wr, rd, call, loc, ret, g>>

\* f(m.data) in RLockFunc, for a callback that calls Set or Get
RLockFuncCallbackCalls(t) ==
    /\ pc[t] = "rlockfunc_f"
    /\ call[t].cb \in InnerOps
    /\ EnterInner(t)
    /\ UNCHANGED <<data, wr, rd, call, loc, ret, g>>

\* one iteration of Iterator: f(k, v), for a visitor that calls Set or Get
IteratorVisitorCalls(t) ==
    /\ pc[t] = "iter_loop"
    /\ call[t].cb \in InnerOps
    /\ \E k \in loc[t].rest :
           loc' = [loc EXCEPT ![t].keys = Append(@, k),
                              ![t].n = Put(@, k, data[call[t].m][k]),
                              ![t].rest = @ \ {k}]
    /\ EnterInner(t)
    /\ UNCHANGED <<data, wr, rd, call, ret, g>>

\* value = f() in doSetWithLockCheck, for a function that calls Set or Get
doSetWithLockCheckCallFCalls(t) ==
    /\ pc[t] = "dsc_callf"
    /\ call[t].cb \in InnerOps
    /\ g' = [g EXCEPT ![t].fcalls = @ + 1,
                      ![t].flocked = t \in wr[call[t].m],
                      ![t].fabsent = call[t].k \notin DOMAIN data[call[t].m]]
    /\ EnterInner(t)
    /\ UNCHANGED <<data, wr, rd, call, loc, ret>>

\* Set called by the callback: m.mu.Lock()
InnerSetLock(t) ==
    /\ pc[t] = "in_set_lock"
    /\ Lock(call[t].o, t)
    /\ Goto(t, "in_set_write")
    /\ UNCHANGED <<data, call, loc, ret, g>>

\* m.data[key] = val
InnerSetWrite(t) ==
    /\ pc[t] = "in_set_write"
    /\ data' = [data EXCEPT ![call[t].o] = Put(@, call[t].k, InnerVal(t))]
    /\ Goto(t, "in_set_unlock")
    /\ UNCHANGED <<wr, rd, call, loc, ret, g>>

\* m.mu.Unlock(); Set returns into the callback
InnerSetUnlock(t) ==
    /\ pc[t] = "in_set_unlock"
    /\ Unlock(call[t].o, t)
    /\ Goto(t, "in_ret")
    /\ UNCHANGED <<data, call, loc, ret, g>>

\* Get called by the callback: m.mu.RLock()
InnerGetRLock(t) ==
    /\ pc[t] = "in_get_rlock"
    /\ RLock(call[t].o, t)
    /\ Goto(t, "in_get_read")
    /\ UNCHANGED <<data, call, loc, ret, g>>

\* val := m.data[key]
InnerGetRead(t) ==
    /\ pc[t] = "in_get_read"
    /\ loc' = [loc EXCEPT ![t].v = Lookup(data[call[t].o], call[t].k)]
    /\ Goto(t, "in_get_runlock")
    /\ UNCHANGED <<data, wr, rd, call, ret, g>>

\* m.mu.RUnlock(); Get returns into the callback.  When the callback runs
\* inside RLockFunc or Iterator of the same container, the goroutine holds the
\* shared lock twice and this releases one hold: it stays a holder until the
\* deferred RUnlock of the outer call.
InnerGetRUnlock(t) ==
    /\ pc[t] = "in_get_runlock"
    /\ IF call[t].op \in OuterSharedOps /\ call[t].o = call[t].m
         THEN UNCHANGED <<wr, rd>>
         ELSE RUnlock(call[t].o, t)
    /\ Goto(t, "in_ret")
    /\ UNCHANGED <<data, call, loc, ret, g>>

\* the callback returns into LockFunc
LockFuncCallbackReturns(t) ==
    /\ pc[t] = "in_ret"
    /\ call[t].op = "LockFunc"
    /\ Goto(t, "lockfunc_unlock")
    /\ UNCHANGED <<data, wr, rd, call, loc, ret, g>>

\* the callback returns into RLockFunc
RLockFuncCallbackReturns(t) ==
    /\ pc[t] = "in_ret"
    /\ call[t].op = "RLockFunc"
    /\ Goto(t, "rlockfunc_runlock")
    /\ UNCHANGED <<data, wr, rd, call, loc, ret, g>>

\* the visitor returns true and the range loop goes on
IteratorVisitorReturns(t) ==
    /\ pc[t] = "in_ret"
    /\ call[t].op = "Iterator"
    /\ Goto(t, "iter_loop")
    /\ UNCHANGED <<data, wr, rd, call, loc, ret, g>>

\* the function returns its value into doSetWithLockCheck
doSetWithLockCheckFReturns(t) ==
    /\ pc[t] = "in_ret"
    /\ call[t].op \in FuncLockOps
    /\ loc' = [loc EXCEPT ![t].value = Apply(loc[t].value)]
    /\ Goto(t, "dsc_store")
    /\ UNCHANGED <<data, wr, rd, call, ret, g>>

\* ------------------------------------------------------------------ states
\* Every store with keys and values in Vals.
AllStores == UNION {[D -> Vals] : D \in SUBSET Vals}

\* Free locks and goroutines that have not called yet.
InitRest ==
    /\ wr = [c \in Maps |-> {}]
    /\ rd = [c \in Maps |-> {}]
    /\ pc = [t \in Threads |-> "idle"]
    /\ call = [t \in Threads |-> NoCall]
    /\ loc = [t \in Threads |-> NoLoc]
    /\ ret = [t \in Threads |-> NoRet]
    /\ g = [t \in Threads |-> NoG]

\* New(): an empty store and a free lock, for each container.
Init ==
    /\ data = [c \in Maps |-> EmptyStore]
    /\ InitRest

\* NewFrom(data): containers built from given maps.
InitFrom ==
    /\ data \in [Maps -> AllStores]
    /\ InitRest

\* The steps of Search, Contains and doSetWithLockCheck, shared by the
\* check-and-set methods.
CasSteps(t) ==
    \/ SearchRLock(t)
    \/ SearchRead(t)
    \/ SearchRUnlock(t)
    \/ ContainsRLock(t)
    \/ ContainsRead(t)
    \/ ContainsRUnlock(t)
    \/ doSetWithLockCheckLock(t)
    \/ doSetWithLockCheckCheck(t)
    \/ doSetWithLockCheckCallF(t)
    \/ doSetWithLockCheckStore(t)
    \/ doSetWithLockCheckUnlock(t)

\* Goroutines calling GetOrSet, GetOrSetFunc and GetOrSetFuncLock.
GosNext ==
    \E t \in Contenders :
        \/ CallGetOrSet(t)
        \/ SearchRLock(t)
        \/ SearchRead(t)
        \/ SearchRUnlock(t)
        \/ GetOrSet(t)
        \/ GetOrSetFunc(t)
        \/ GetOrSetFuncLock(t)
        \/ GetOrSetReturn(t)
        \/ doSetWithLockCheckLock(t)
        \/ doSetWithLockCheckCheck(t)
        \/ doSetWithLockCheckCallF(t)
        \/ doSetWithLockCheckStore(t)
        \/ doSetWithLockCheckUnlock(t)

GosSpec == Init /\ [][GosNext]_vars

\* Goroutines calling SetIfNotExist, SetIfNotExistFunc and SetIfNotExistFuncLock.
SineNext ==
    \E t \in Contenders :
        \/ CallSetIfNotExist(t)
        \/ ContainsRLock(t)
        \/ ContainsRead(t)
        \/ ContainsRUnlock(t)
        \/ SetIfNotExist(t)
        \/ SetIfNotExistFunc(t)
        \/ SetIfNotExistFuncLock(t)
        \/ SetIfNotExistReturn(t)
        \/ doSetWithLockCheckLock(t)
        \/ doSetWithLockCheckCheck(t)
        \/ doSetWithLockCheckCallF(t)
        \/ doSetWithLockCheckStore(t)
        \/ doSetWithLockCheckUnlock(t)

SineSpec == Init /\ [][SineNext]_vars

\* Goroutines calling GetOrSetFuncLock and SetIfNotExistFuncLock.
FuncLockNext ==
    \E t \in Contenders :
        \/ CallFuncLock(t)
        \/ CasSteps(t)
        \/ GetOrSetFuncLock(t)
        \/ GetOrSetReturn(t)
        \/ SetIfNotExistFuncLock(t)
        \/ SetIfNotExistReturn(t)

FuncLockSpec == Init /\ [][FuncLockNext]_vars

\* Goroutines calling Set, Remove and Get on one container.
RWNext ==
    \E t \in Threads :
        \/ CallSet(t)
        \/ SetLock(t)
        \/ SetWrite(t)
        \/ SetUnlock(t)
        \/ CallGet(t)
        \/ GetRLock(t)
        \/ GetRead(t)
        \/ GetRUnlock(t)
        \/ GetReturn(t)
        \/ CallRemove(t)
        \/ RemoveLock(t)
        \/ RemoveRead(t)
        \/ RemoveDelete(t)
        \/ RemoveUnlock(t)
        \/ RemoveReturn(t)

RWSpec == Init /\ [][RWNext]_vars

\* NewFrom(data) for the concurrent batch runs: "a" is empty or maps every
\* key to itself, "b" maps the keys in reverse.
InitBatch ==
    /\ data \in {[a |-> s, b |-> [k \in Vals |-> MaxVal + 1 - k]] :
                    s \in {EmptyStore, [k \in Vals |-> k]}}
    /\ InitRest

\* Goroutines calling the batch writers and the readers of container "a";
\* Merge copies from container "b".
BatchNext ==
    \E t \in Contenders :
        \/ CallSets(t)
        \/ SetsLock(t)
        \/ SetsStep(t)
        \/ SetsUnlock(t)
        \/ CallRemoves(t)
        \/ RemovesLock(t)
        \/ RemovesStep(t)
        \/ RemovesUnlock(t)
        \/ CallFlip(t)
        \/ FlipLock(t)
        \/ FlipStep(t)
        \/ FlipAssign(t)
        \/ FlipUnlock(t)
        \/ CallMergeInto(t, "a", "b")
        \/ MergeLock(t)
        \/ MergeRLock(t)
        \/ MergeStep(t)
        \/ MergeRUnlock(t)
        \/ MergeUnlock(t)
        \/ CallMap(t)
        \/ MapRLock(t)
        \/ MapStep(t)
        \/ MapRUnlock(t)
        \/ MapReturn(t)
        \/ CallSize(t)
        \/ SizeRLock(t)
        \/ SizeRead(t)
        \/ SizeRUnlock(t)
        \/ SizeReturn(t)
        \/ CallGet(t)
        \/ GetRLock(t)
        \/ GetRead(t)
        \/ GetRUnlock(t)
        \/ GetReturn(t)

BatchSpec == InitBatch /\ [][BatchNext]_vars

\* Goroutines merging the two containers into each other and into themselves.
MergeNext ==
    \E t \in Contenders :
        \/ \E m, o \in Maps : CallMergeInto(t, m, o)
        \/ MergeLock(t)
        \/ MergeRLock(t)
        \/ MergeStep(t)
        \/ MergeRUnlock(t)
        \/ MergeUnlock(t)

MergeSpec == InitFrom /\ [][MergeNext]_vars

\* One goroutine making its calls one after the other: call t starts when
\* call t - 1 has returned.
InOrder(t) == \A u \in Threads : u < t => pc[u] = "done"

SeqNext ==
    \E t \in Contenders :
        \/ InOrder(t) /\ CallFlip(t)
        \/ InOrder(t) /\ \E o \in Maps : CallMergeInto(t, "a", o)
        \/ FlipLock(t)
        \/ FlipStep(t)
        \/ FlipAssign(t)
        \/ FlipUnlock(t)
        \/ MergeLock(t)
        \/ MergeRLock(t)
        \/ MergeStep(t)
        \/ MergeRUnlock(t)
        \/ MergeUnlock(t)

SeqSpec == InitFrom /\ [][SeqNext]_vars

\* The function values func() interface{} that return a plain value.
Funcs == {Fn(x) : x \in U}

\* One goroutine making its calls one after the other; g[t].pre is the store
\* that call t finds.
SeqCall(t, c, p) ==
    /\ pc[t] = "idle"
    /\ InOrder(t)
    /\ call' = [call EXCEPT ![t] = c]
    /\ g' = [g EXCEPT ![t].pre = data[c.m]]
    /\ Goto(t, p)
    /\ UNCHANGED <<data, wr, rd, loc, ret>>

\* NewFrom(data) for container a, New() for b.
InitOne ==
    /\ data \in {d \in [Maps -> AllStores] : d["b"] = EmptyStore}
    /\ InitRest

\* SetIfNotExist and Get calls on one key, one after the other.
SineSeqNext ==
    \E t \in Contenders :
        \/ \E k \in HotKeys, v \in U \cup Funcs :
               SeqCall(t, Args("SetIfNotExist", "a", k, v), "contains_rlock")
        \/ \E k \in HotKeys : SeqCall(t, Args("Get", "a", k, Nil), "get_rlock")
        \/ ContainsRLock(t)
        \/ ContainsRead(t)
        \/ ContainsRUnlock(t)
        \/ SetIfNotExist(t)
        \/ doSetWithLockCheckLock(t)
        \/ doSetWithLockCheckCheck(t)
        \/ doSetWithLockCheckCallF(t)
        \/ doSetWithLockCheckStore(t)
        \/ doSetWithLockCheckUnlock(t)
        \/ SetIfNotExistReturn(t)
        \/ GetRLock(t)
        \/ GetRead(t)
        \/ GetRUnlock(t)
        \/ GetReturn(t)

SineSeqSpec == InitOne /\ [][SineSeqNext]_vars

\* The first call builds container a with NewFromArray; the calls after it
\* are Search, Contains and Size on a.
NewFromArrayNext ==
    \E t \in Contenders :
        \/ /\ t = 1
           /\ pc[t] = "idle"
           /\ \E ks \in SeqsOf(Vals), vs \in SeqsOf(Vals) :
                  SeqCall(t, [Args("NewFromArray", "a", Nil, Nil)
                                 EXCEPT !.ks = ks, !.vs = vs], "nfa_make")
        \/ /\ t > 1
           /\ \/ \E k \in Vals : SeqCall(t, Args("Search", "a", k, Nil), "search_rlock")
              \/ \E k \in Vals : SeqCall(t, Args("Contains", "a", k, Nil), "contains_rlock")
              \/ SeqCall(t, Args("Size", "a", Nil, Nil), "size_rlock")
        \/ NewFromArrayMake(t)
        \/ NewFromArrayStep(t)
        \/ NewFromArrayReturn(t)
        \/ SearchRLock(t)
        \/ SearchRead(t)
        \/ SearchRUnlock(t)
        \/ SearchReturn(t)
        \/ ContainsRLock(t)
        \/ ContainsRead(t)
        \/ ContainsRUnlock(t)
        \/ ContainsReturn(t)
        \/ SizeRLock(t)
        \/ SizeRead(t)
        \/ SizeRUnlock(t)
        \/ SizeReturn(t)

NewFromArraySpec == Init /\ [][NewFromArrayNext]_vars

\* Goroutines calling LockFunc, RLockFunc, Set and Get on one container.
CallbackNext ==
    \E t \in Contenders :
        \/ CallLockFunc(t)
        \/ LockFuncLock(t)
        \/ LockFuncCallback(t)
        \/ LockFuncUnlock(t)
        \/ CallRLockFunc(t)
        \/ RLockFuncRLock(t)
        \/ RLockFuncCallback(t)
        \/ RLockFuncRUnlock(t)
        \/ CallSet(t)
        \/ SetLock(t)
        \/ SetWrite(t)
        \/ SetUnlock(t)
        \/ CallGet(t)
        \/ GetRLock(t)
        \/ GetRead(t)
        \/ GetRUnlock(t)
        \/ GetReturn(t)

CallbackSpec == Init /\ [][CallbackNext]_vars

\* Goroutines iterating over a container while others set and remove a key.
IteratorNext ==
    \E t \in Contenders :
        \/ CallIterator(t)
        \/ IteratorRLock(t)
        \/ IteratorStep(t)
        \/ IteratorEnd(t)
        \/ IteratorRUnlock(t)
        \/ CallSet(t)
        \/ SetLock(t)
        \/ SetWrite(t)
        \/ SetUnlock(t)
        \/ CallRemove(t)
        \/ RemoveLock(t)
        \/ RemoveRead(t)
        \/ RemoveDelete(t)
        \/ RemoveUnlock(t)
        \/ RemoveReturn(t)

IteratorSpec == InitBatch /\ [][IteratorNext]_vars

\* Goroutines taking copies of a container, and writing into them, while
\* others set a key of the container.
CopyNext ==
    \E t \in Contenders :
        \/ CallMap(t)
        \/ CallClone(t)
        \/ MapRLock(t)
        \/ MapStep(t)
        \/ MapRUnlock(t)
        \/ MapReturn(t)
        \/ CallKeys(t)
        \/ KeysRLock(t)
        \/ KeysStep(t)
        \/ KeysRUnlock(t)
        \/ KeysReturn(t)
        \/ CallValues(t)
        \/ ValuesRLock(t)
        \/ ValuesStep(t)
        \/ ValuesRUnlock(t)
        \/ ValuesReturn(t)
        \/ CopyWrite(t)
        \/ CallSet(t)
        \/ SetLock(t)
        \/ SetWrite(t)
        \/ SetUnlock(t)

CopySpec == InitBatch /\ [][CopyNext]_vars

\* Container a holds a value at the contended key, and every goroutine
\* removes that key.
InitHeld ==
    /\ data \in {d \in [Maps -> AllStores] :
                    HotKeys \subseteq DOMAIN d["a"] /\ d["b"] = EmptyStore}
    /\ InitRest

RemoveNext ==
    \E t \in Threads :
        \/ CallRemove(t)
        \/ RemoveLock(t)
        \/ RemoveRead(t)
        \/ RemoveDelete(t)
        \/ RemoveUnlock(t)
        \/ RemoveReturn(t)

RemoveSpec == InitHeld /\ [][RemoveNext]_vars

\* The keys of the stores and batches when every method is called: the first
\* key and the contended key.
TwoKeys == {1} \cup HotKeys
TwoKeysSeq == IF 1 \in HotKeys THEN <<1>> ELSE <<1, CHOOSE k \in HotKeys : TRUE>>

\* Container a maps both keys to 1; container b maps each key to itself.
InitAll ==
    /\ data = [c \in Maps |-> IF c = "a" THEN [k \in TwoKeys |-> 1]
                                         ELSE [k \in TwoKeys |-> k]]
    /\ InitRest

\* Goroutines calling the methods of Map on container a, each with one choice
\* of arguments: the contended key, the value MaxVal or the function returning
\* it, the batch that sets both keys to MaxVal, container b and container a
\* itself for Merge.  GetVar, GetVarOrSet, GetVarOrSetFunc and
\* GetVarOrSetFuncLock box the result of Get, GetOrSet, GetOrSetFunc and
\* GetOrSetFuncLock in a gvar.Var and touch lock and store through those calls
\* only; they have no call of their own here.
AllCalls ==
    LET h == CHOOSE k \in HotKeys : TRUE
        on(op, k, v) == Args(op, "a", k, v)
    IN {<<on("GetOrSet", h, MaxVal), "search_rlock">>,
        <<on("GetOrSetFunc", h, Fn(MaxVal)), "search_rlock">>,
        <<on("GetOrSetFuncLock", h, Fn(MaxVal)), "search_rlock">>,
        <<on("SetIfNotExist", h, MaxVal), "contains_rlock">>,
        <<on("SetIfNotExistFunc", h, Fn(MaxVal)), "contains_rlock">>,
        <<on("SetIfNotExistFuncLock", h, Fn(MaxVal)), "contains_rlock">>,
        <<on("Search", h, Nil), "search_rlock">>,
        <<on("Contains", h, Nil), "contains_rlock">>,
        <<on("Set", h, MaxVal), "set_lock">>,
        <<on("Get", h, Nil), "get_rlock">>,
        <<on("Remove", h, Nil), "remove_lock">>,
        <<[on("Sets", Nil, Nil) EXCEPT !.b = [k \in TwoKeys |-> MaxVal]], "sets_lock">>,
        <<[on("Removes", Nil, Nil) EXCEPT !.ks = TwoKeysSeq], "removes_lock">>,
        <<on("Flip", Nil, Nil), "flip_lock">>,
        <<[on("Merge", Nil, Nil) EXCEPT !.o = "b"], "merge_lock">>,
        <<on("Merge", Nil, Nil), "merge_lock">>,
        <<on("Map", Nil, Nil), "map_rlock">>,
        <<on("Clone", Nil, Nil), "map_rlock">>,
        <<on("Keys", Nil, Nil), "keys_rlock">>,
        <<on("Values", Nil, Nil), "values_rlock">>,
        <<on("Size", Nil, Nil), "size_rlock">>,
        <<on("IsEmpty", Nil, Nil), "isempty_rlock">>,
        <<on("Iterator", h, Nil), "iter_rlock">>,
        <<[on("LockFunc", h, MaxVal) EXCEPT !.cb = "panic"], "lockfunc_lock">>,
        <<[on("RLockFunc", h, Nil) EXCEPT !.cb = "return"], "rlockfunc_rlock">>,
        <<on("Clear", Nil, Nil), "clear_lock">>}

\* The first two goroutines call any method; the others write, read or
\* replace the store with Set, Get or Clear.
CallsOf(t) ==
    IF t <= 2 THEN AllCalls
    ELSE {c \in AllCalls : c[1].op \in {"Set", "Get", "Clear"}}

AllNext ==
    \E t \in Contenders :
        \/ \E c \in CallsOf(t) : Begin(t, c[1], c[2])
        \/ SearchRLock(t) \/ SearchRead(t) \/ SearchRUnlock(t) \/ SearchReturn(t)
        \/ ContainsRLock(t) \/ ContainsRead(t) \/ ContainsRUnlock(t)
        \/ ContainsReturn(t)
        \/ doSetWithLockCheckLock(t) \/ doSetWithLockCheckCheck(t)
        \/ doSetWithLockCheckCallF(t) \/ doSetWithLockCheckStore(t)
        \/ doSetWithLockCheckUnlock(t)
        \/ GetOrSet(t) \/ GetOrSetFunc(t) \/ GetOrSetFuncLock(t) \/ GetOrSetReturn(t)
        \/ SetIfNotExist(t) \/ SetIfNotExistFunc(t) \/ SetIfNotExistFuncLock(t)
        \/ SetIfNotExistReturn(t)
        \/ SetLock(t) \/ SetWrite(t) \/ SetUnlock(t)
        \/ GetRLock(t) \/ GetRead(t) \/ GetRUnlock(t) \/ GetReturn(t)
        \/ RemoveLock(t) \/ RemoveRead(t) \/ RemoveDelete(t) \/ RemoveUnlock(t)
        \/ RemoveReturn(t)
        \/ SetsLock(t) \/ SetsStep(t) \/ SetsUnlock(t)
        \/ RemovesLock(t) \/ RemovesStep(t) \/ RemovesUnlock(t)
        \/ FlipLock(t) \/ FlipStep(t) \/ FlipAssign(t) \/ FlipUnlock(t)
        \/ MergeLock(t) \/ MergeRLock(t) \/ MergeStep(t) \/ MergeRUnlock(t)
        \/ MergeUnlock(t)
        \/ MapRLock(t) \/ MapStep(t) \/ MapRUnlock(t) \/ MapReturn(t)
        \/ KeysRLock(t) \/ KeysStep(t) \/ KeysRUnlock(t) \/ KeysReturn(t)
        \/ ValuesRLock(t) \/ ValuesStep(t) \/ ValuesRUnlock(t) \/ ValuesReturn(t)
        \/ SizeRLock(t) \/ SizeRead(t) \/ SizeRUnlock(t) \/ SizeReturn(t)
        \/ IsEmptyRLock(t) \/ IsEmptyRead(t) \/ IsEmptyRUnlock(t) \/ IsEmptyReturn(t)
        \/ IteratorRLock(t) \/ IteratorStep(t) \/ IteratorEnd(t) \/ IteratorRUnlock(t)
        \/ LockFuncLock(t) \/ LockFuncCallback(t) \/ LockFuncUnlock(t)
        \/ RLockFuncRLock(t) \/ RLockFuncCallback(t) \/ RLockFuncRUnlock(t)
        \/ ClearLock(t) \/ ClearMake(t) \/ ClearUnlock(t)

AllSpec == InitAll /\ [][AllNext]_vars

\* Goroutines calling, on container a, LockFunc, GetOrSetFuncLock or
\* SetIfNotExistFuncLock, RLockFunc or Iterator with a callback, supplier or
\* visitor that calls Set or Get of container o: of a itself or of container b.
ReentrantCalls ==
    LET h == CHOOSE k \in HotKeys : TRUE
        on(op, v, cb, o) == [Args(op, "a", h, v) EXCEPT !.o = o, !.cb = cb]
    IN  UNION {
          {<<on("LockFunc", MaxVal, cb, o), "lockfunc_lock">>,
           <<on("GetOrSetFuncLock", Fn(MaxVal), cb, o), "search_rlock">>,
           <<on("SetIfNotExistFuncLock", Fn(MaxVal), cb, o), "contains_rlock">>}
          : cb \in InnerOps, o \in Maps}
        \cup UNION {
          {<<on("RLockFunc", MaxVal, cb, o), "rlockfunc_rlock">>,
           <<on("Iterator", MaxVal, cb, o), "iter_rlock">>}
          : cb \in InnerOps, o \in Maps}

\* The first two goroutines make any of these calls; the others call LockFunc.
ReentrantCallsOf(t) ==
    IF t <= 2 THEN ReentrantCalls
    ELSE {c \in ReentrantCalls : c[1].op = "LockFunc"}

ReentrantNext ==
    \E t \in Contenders :
        \/ \E c \in ReentrantCallsOf(t) : Begin(t, c[1], c[2])
        \/ LockFuncLock(t) \/ LockFuncCallbackCalls(t) \/ LockFuncCallbackReturns(t)
        \/ LockFuncUnlock(t)
        \/ RLockFuncRLock(t) \/ RLockFuncCallbackCalls(t)
        \/ RLockFuncCallbackReturns(t) \/ RLockFuncRUnlock(t)
        \/ IteratorRLock(t) \/ IteratorVisitorCalls(t) \/ IteratorVisitorReturns(t)
        \/ IteratorEnd(t) \/ IteratorRUnlock(t)
        \/ SearchRLock(t) \/ SearchRead(t) \/ SearchRUnlock(t)
        \/ ContainsRLock(t) \/ ContainsRead(t) \/ ContainsRUnlock(t)
        \/ GetOrSetFuncLock(t) \/ SetIfNotExistFuncLock(t)
        \/ doSetWithLockCheckLock(t) \/ doSetWithLockCheckCheck(t)
        \/ doSetWithLockCheckCallFCalls(t) \/ doSetWithLockCheckFReturns(t)
        \/ doSetWithLockCheckStore(t) \/ doSetWithLockCheckUnlock(t)
        \/ GetOrSetReturn(t) \/ SetIfNotExistReturn(t)
        \/ InnerSetLock(t) \/ InnerSetWrite(t) \/ InnerSetUnlock(t)
        \/ InnerGetRLock(t) \/ InnerGetRead(t) \/ InnerGetRUnlock(t)

ReentrantSpec == InitBatch /\ [][ReentrantNext]_vars

\* Goroutines calling GetOrSet or SetIfNotExist with a plain value or a
\* function, and GetOrSetFunc or SetIfNotExistFunc with a supplier that
\* returns a plain value or a function (Fn(Fn(x)) is the supplier that returns
\* the function returning x), for the contended key of container a.  The plain
\* values are nil and MaxVal.
GivenVals == {Nil, MaxVal, Fn(Nil), Fn(MaxVal)}
FuncValueCalls ==
    LET h == CHOOSE k \in HotKeys : TRUE
    IN  UNION {
          {<<Args("GetOrSet", "a", h, v), "search_rlock">>,
           <<Args("SetIfNotExist", "a", h, v), "contains_rlock">>,
           <<Args("GetOrSetFunc", "a", h, Fn(v)), "search_rlock">>,
           <<Args("SetIfNotExistFunc", "a", h, Fn(v)), "contains_rlock">>}
          : v \in GivenVals}

\* The first two goroutines make any of these calls; the others call GetOrSet.
FuncValueCallsOf(t) ==
    IF t <= 2 THEN FuncValueCalls
    ELSE {c \in FuncValueCalls : c[1].op = "GetOrSet"}

FuncValueNext ==
    \E t \in Contenders :
        \/ \E c \in FuncValueCallsOf(t) : Begin(t, c[1], c[2])
        \/ SearchRLock(t) \/ SearchRead(t) \/ SearchRUnlock(t)
        \/ ContainsRLock(t) \/ ContainsRead(t) \/ ContainsRUnlock(t)
        \/ GetOrSet(t) \/ GetOrSetFunc(t)
        \/ SetIfNotExist(t) \/ SetIfNotExistFunc(t)
        \/ doSetWithLockCheckLock(t) \/ doSetWithLockCheckCheck(t)
        \/ doSetWithLockCheckCallF(t) \/ doSetWithLockCheckStore(t)
        \/ doSetWithLockCheckUnlock(t)
        \/ GetOrSetReturn(t) \/ SetIfNotExistReturn(t)

FuncValueSpec == InitBatch /\ [][FuncValueNext]_vars

\* ------------------------------------------------------------- sections
\* Where a goroutine is between an RLock and its RUnlock, or between a Lock
\* and its Unlock, of container c: in its own call on c, in the callback that
\* call runs with the lock held, or in the Get or Set the callback calls on c.
InShared(t, c) ==
    \/ /\ call[t].op = "Merge"
       /\ call[t].o = c /\ call[t].m # c
       /\ pc[t] = "merge_loop"
    \/ /\ call[t].m = c
       /\ pc[t] \in {"search_read", "search_runlock", "contains_read",
                   "contains_runlock", "get_read", "get_runlock", "map_loop",
                   "size_read", "size_runlock", "isempty_read",
                   "isempty_runlock", "keys_loop", "values_loop",
                   "iter_loop", "iter_runlock", "rlockfunc_f",
                   "rlockfunc_runlock"}
    \/ /\ call[t].m = c
       /\ call[t].op \in OuterSharedOps
       /\ pc[t] \in InnerPcs
    \/ /\ call[t].o = c
       /\ call[t].cb = "Get"
       /\ pc[t] \in {"in_get_read", "in_get_runlock"}
InExclusive(t, c) ==
    \/ /\ call[t].m = c
       /\ pc[t] \in {"dsc_check", "dsc_callf", "dsc_store", "dsc_unlock",
                   "set_write", "set_unlock", "remove_read", "remove_delete",
                   "remove_unlock",
                   "sets_loop", "removes_loop", "flip_loop", "flip_unlock",
                   "merge_rlock", "merge_loop", "merge_unlock",
                   "lockfunc_f", "lockfunc_unlock", "clear_make", "clear_unlock"}
    \/ /\ call[t].m = c
       /\ call[t].op \in {"LockFunc"} \cup FuncLockOps
       /\ pc[t] \in InnerPcs
    \/ /\ call[t].o = c
       /\ call[t].cb = "Set"
       /\ pc[t] \in {"in_set_write", "in_set_unlock"}

Started(t) == pc[t] # "idle"
Returned(t) == pc[t] = "done"

\* ------------------------------------------------------------------- C1
\* The plain value a caller offers: its argument, or what its supplier returns.
Offered(t) == IF call[t].op \in SupplierOps THEN Apply(call[t].v) ELSE call[t].v
CallersOf(ops, k) == {t \in Threads : Started(t) /\ call[t].op \in ops /\ call[t].k = k}
StorersOf(ops, k) == {t \in CallersOf(ops, k) : g[t].stored}

\* C1: when goroutines call GetOrSet, GetOrSetFunc or GetOrSetFuncLock for
\* the same key, absent at the start, at most one of them ever writes the
\* store, the value it wrote stays the key's value, and every call that has
\* returned returned that stored value (so exactly one caller wrote).
C1_GetOrSetOneValue ==
    \A k \in HotKeys :
        LET storers == StorersOf(GetOrSetOps, k) IN
        /\ Cardinality(storers) <= 1
        /\ \A t \in storers :
               k \in DOMAIN data["a"] /\ data["a"][k] = Offered(t)
        /\ \A t \in CallersOf(GetOrSetOps, k) :
               Returned(t) =>
                   /\ Cardinality(storers) = 1
                   /\ k \in DOMAIN data["a"]
                   /\ ret[t].val = data["a"][k]

\* Two callers have both found the key absent in Search, offered different
\* values, and returned.
C1_Witness ==
    \E t, u \in Threads :
        /\ t # u
        /\ Returned(t) /\ Returned(u)
        /\ call[t].op \in GetOrSetOps /\ call[u].op \in GetOrSetOps
        /\ call[t].k = call[u].k
        /\ ~loc[t].ok /\ ~loc[u].ok
        /\ Offered(t) # Offered(u)
        /\ ret[t].val = Offered(u)

\* ------------------------------------------------------------------- C2
\* C2: a call to SetIfNotExist, SetIfNotExistFunc or SetIfNotExistFuncLock
\* returns true if and only if that call itself stored its value, and of
\* the calls for one absent key at most one returns true.
C2_TrueIffStored ==
    /\ \A t \in Threads :
           (Returned(t) /\ call[t].op \in SetIfNotExistOps) =>
               (ret[t].ok <=> g[t].stored)
    /\ \A k \in HotKeys :
           Cardinality({t \in CallersOf(SetIfNotExistOps, k) :
                            Returned(t) /\ ret[t].ok}) <= 1

\* ------------------------------------------------------------------- C4
\* C4 as stated: in GetOrSetFunc the supplier runs at most once, only under
\* the exclusive lock and with the key absent from the store, and never in
\* a call that ends up storing nothing.
C4_SupplierUnderLock ==
    \A t \in Threads :
        call[t].op = "GetOrSetFunc" =>
            /\ g[t].fcalls <= 1
            /\ g[t].fcalls = 1 => (g[t].flocked /\ g[t].fabsent)
            /\ (Returned(t) /\ g[t].fcalls = 1) => g[t].stored

\* C4 as amended: in GetOrSetFunc the supplier runs at most once, while the
\* caller holds no lock (before doSetWithLockCheck is entered), and exactly
\* in the calls whose first Search found the key absent, whether or not the
\* call ends up storing.
C4_SupplierBeforeLock ==
    \A t \in Threads :
        call[t].op = "GetOrSetFunc" =>
            /\ g[t].fcalls <= 1
            /\ g[t].fcalls = 1 => (~g[t].flocked /\ ~loc[t].ok)
            /\ (pc[t] \notin {"idle", "search_rlock", "search_read",
                              "search_runlock", "search_ret"} /\ ~loc[t].ok)
                   => g[t].fcalls = 1
            /\ loc[t].ok => g[t].fcalls = 0

\* A GetOrSetFunc call ran its supplier and returned another caller's value.
C4_Witness ==
    \E t \in Threads :
        /\ call[t].op = "GetOrSetFunc"
        /\ Returned(t)
        /\ g[t].fcalls = 1
        /\ ~g[t].stored
        /\ ret[t].val # Offered(t)

\* ------------------------------------------------------------------- C5
\* C5: in GetOrSetFuncLock and SetIfNotExistFuncLock the supplier runs only
\* while the caller holds the exclusive lock, after the re-check found the
\* key absent, with no other goroutine inside a locked section of the
\* container; of the calls for one absent key exactly one runs it.
C5_SupplierLocked ==
    /\ \A t \in Threads :
           call[t].op \in FuncLockOps =>
               /\ pc[t] = "dsc_callf" =>
                      /\ wr[call[t].m] = {t}
                      /\ call[t].k \notin DOMAIN data[call[t].m]
                      /\ \A u \in Threads \ {t} :
                             ~InShared(u, call[t].m) /\ ~InExclusive(u, call[t].m)
               /\ g[t].fcalls > 0 => (g[t].flocked /\ g[t].fabsent)
    /\ \A k \in HotKeys :
           LET ran == {t \in CallersOf(FuncLockOps, k) : g[t].fcalls > 0} IN
           /\ Cardinality(ran) <= 1
           /\ \A t \in ran : g[t].fcalls = 1
           /\ (\E t \in CallersOf(FuncLockOps, k) : Returned(t)) => Cardinality(ran) = 1

\* Two callers of the locked variants both found the key absent and both
\* returned; one of them ran its supplier.
C5_Witness ==
    \E t, u \in Threads :
        /\ t # u
        /\ call[t].op = "GetOrSetFuncLock" /\ call[u].op = "SetIfNotExistFuncLock"
        /\ call[t].k = call[u].k
        /\ Returned(t) /\ Returned(u)
        /\ ~loc[t].ok /\ ~loc[u].ok
        /\ g[t].fcalls + g[u].fcalls = 1

\* ------------------------------------------------------------------- C6
\* Some Set(k, v) has written the store.
WasSet(k, v) ==
    \E u \in Threads :
        /\ call[u].op = "Set" /\ call[u].k = k /\ call[u].v = v
        /\ pc[u] \in {"set_unlock", "done"}

\* C6 as stated: a Get(k) that returns a value other than nil returns a value
\* that was set, and k is in the store when the Get returns.
C6_GetSeesPresentKey ==
    \A t \in Threads :
        (call[t].op = "Get" /\ Returned(t) /\ ret[t].val # Nil) =>
            /\ WasSet(call[t].k, ret[t].val)
            /\ g[t].present

\* C6 as amended: a Get(k) that returns a value other than nil returns a value
\* that was set, and k holds that value in the store from the Get's read
\* until the Get releases the shared lock (not until it returns).
C6_GetSeesKeyAtRead ==
    \A t \in Threads :
        call[t].op = "Get" =>
            /\ pc[t] = "get_runlock" => loc[t].v = Lookup(data[call[t].m], call[t].k)
            /\ (pc[t] \in {"get_runlock", "get_ret", "done"} /\ loc[t].v # Nil)
                   => WasSet(call[t].k, loc[t].v)
            /\ Returned(t) => ret[t].val = loc[t].v

\* A Get returned the value of a key that a Remove, finished before the Get
\* returned, had deleted.
C6_Witness ==
    \E t, u \in Threads :
        /\ call[t].op = "Get" /\ Returned(t) /\ ret[t].val # Nil
        /\ ~g[t].present
        /\ call[u].op = "Remove" /\ call[u].k = call[t].k /\ Returned(u)
        /\ ret[u].val = ret[t].val

\* ------------------------------------------------------------------- C7
BatchOps == {"Sets", "Removes", "Flip", "Merge"}
Override(s, b) ==
    [k \in (DOMAIN s) \cup (DOMAIN b) |-> IF k \in DOMAIN b THEN b[k] ELSE s[k]]
Without(s, ks) == [k \in (DOMAIN s) \ {ks[i] : i \in DOMAIN ks} |-> s[k]]
\* n holds, for each value of s, one of the keys of s that had it.
IsFlipOf(n, s) ==
    /\ \A k \in DOMAIN s : s[k] \in DOMAIN n
    /\ \A v \in DOMAIN n : n[v] \in DOMAIN s /\ s[n[v]] = v

\* The batch writer has applied its last entry and still holds the lock.
BatchDone(t) ==
    \/ call[t].op = "Sets" /\ pc[t] = "sets_loop" /\ loc[t].rest = {}
    \/ call[t].op = "Removes" /\ pc[t] = "removes_loop" /\ loc[t].keys = << >>
    \/ call[t].op = "Flip" /\ pc[t] = "flip_unlock"
    \/ call[t].op = "Merge" /\ pc[t] = "merge_loop" /\ loc[t].rest = {}

\* What the whole batch makes of the store s.
BatchResult(t, s, d) ==
    CASE call[t].op = "Sets" -> d = Override(s, call[t].b)
      [] call[t].op = "Removes" -> d = Without(s, call[t].ks)
      [] call[t].op = "Flip" -> IsFlipOf(d, s)
      [] call[t].op = "Merge" -> d = Override(s, data[call[t].o])

\* The stores of container c between writes: before and after each batch.
Committed(c) ==
    {g[w].pre : w \in {u \in Threads : call[u].op \in BatchOps /\ call[u].m = c
                                          /\ (InExclusive(u, c) \/ Returned(u))}}
    \cup {g[w].post : w \in {u \in Threads : call[u].op \in BatchOps /\ call[u].m = c
                                               /\ Returned(u)}}
    \cup (IF \E u \in Threads : InExclusive(u, c) THEN {} ELSE {data[c]})

\* C7: while Sets, Removes, Merge or Flip is between its Lock and Unlock, no
\* other goroutine is inside a locked section of the container; the store
\* at the end of the batch is the whole batch applied to the store found at
\* Lock; and what Map, Size and Get return is taken from the store as it
\* was before or after a batch, never in between.
C7_BatchAtomic ==
    /\ \A t \in Threads :
           (call[t].op \in BatchOps /\ InExclusive(t, call[t].m)) =>
               /\ \A u \in Threads \ {t} :
                      ~InShared(u, call[t].m) /\ ~InExclusive(u, call[t].m)
               /\ BatchDone(t) => BatchResult(t, g[t].pre, data[call[t].m])
    /\ \A t \in Threads :
           Returned(t) =>
               /\ call[t].op = "Map" => ret[t].map \in Committed(call[t].m)
               /\ call[t].op = "Size" =>
                      \E s \in Committed(call[t].m) : ret[t].val = Cardinality(DOMAIN s)
               /\ call[t].op = "Get" =>
                      \E s \in Committed(call[t].m) : ret[t].val = Lookup(s, call[t].k)
               /\ call[t].op \in BatchOps =>
                      BatchResult(t, g[t].pre, g[t].post)

\* A Map call waited for a Sets that changes two entries, and returned the
\* store that Sets left.
C7_Witness ==
    \E t, u \in Threads :
        /\ call[t].op = "Sets" /\ Returned(t)
        /\ \A k \in DOMAIN call[t].b : Lookup(g[t].pre, k) # call[t].b[k]
        /\ Cardinality(DOMAIN call[t].b) >= 2
        /\ call[u].op = "Map" /\ Returned(u)
        /\ ret[u].map = g[t].post
        /\ data[call[t].m] = g[t].post

\* ------------------------------------------------------------------- C3
\* Goroutine t is at a Lock or RLock of Merge that u's lock keeps it from.
MergeWaitsFor(t, u) ==
    /\ call[t].op = "Merge"
    /\ \/ pc[t] = "merge_lock" /\ u \in (wr[call[t].m] \cup rd[call[t].m])
       \/ pc[t] = "merge_rlock" /\ call[t].o # call[t].m /\ u \in wr[call[t].o]

\* C3: a.Merge(b) and b.Merge(a), run by two goroutines, never wait for each
\* other's locks at the same time.
C3_MergesNeverDeadlock ==
    \A t, u \in Threads :
        (t # u /\ call[t].op = "Merge" /\ call[u].op = "Merge"
             /\ call[t].m # call[t].o
             /\ call[u].m = call[t].o /\ call[u].o = call[t].m)
            => ~(MergeWaitsFor(t, u) /\ MergeWaitsFor(u, t))

\* ------------------------------------------------------------------- C8
\* C8: after self.Merge(other) on two containers, with no other call running,
\* every key of other has other's value in self, every other key of self
\* keeps its value, self has no further key, other is unchanged, and with
\* disjoint key sets the sizes add up.
C8_MergeResult ==
    \A t \in Threads :
        (call[t].op = "Merge" /\ call[t].m # call[t].o /\ Returned(t)) =>
            LET before == g[t].pre
                other == g[t].opre
                after == g[t].post
            IN /\ DOMAIN after = (DOMAIN before) \cup (DOMAIN other)
               /\ \A k \in DOMAIN other : after[k] = other[k]
               /\ \A k \in (DOMAIN before) \ (DOMAIN other) : after[k] = before[k]
               /\ data[call[t].o] = other
               /\ (DOMAIN before) \cap (DOMAIN other) = {} =>
                      Cardinality(DOMAIN after)
                          = Cardinality(DOMAIN before) + Cardinality(DOMAIN other)

\* A Merge returned that overwrote a key of self with a different value of
\* other and left alone a key that only self had.
C8_Witness ==
    \E t \in Threads :
        /\ call[t].op = "Merge" /\ call[t].m # call[t].o /\ Returned(t)
        /\ \E k \in (DOMAIN g[t].pre) \cap (DOMAIN g[t].opre) :
               g[t].pre[k] # g[t].opre[k] /\ g[t].post[k] = g[t].opre[k]
        /\ (DOMAIN g[t].pre) \ (DOMAIN g[t].opre) # {}

\* ------------------------------------------------------------------- C9
\* C9: m.Merge(m) never holds m's shared lock, can take each of its steps
\* once it holds m's exclusive lock, and when it has returned the lock is free
\* and the store is as it was.
C9_SelfMerge ==
    \A t \in Threads :
        (call[t].op = "Merge" /\ call[t].m = call[t].o) =>
            /\ t \notin rd[call[t].m]
            /\ pc[t] = "merge_rlock" => ENABLED MergeRLock(t)
            /\ pc[t] = "merge_loop" => ENABLED (MergeStep(t) \/ MergeRUnlock(t))
            /\ pc[t] = "merge_unlock" => ENABLED MergeUnlock(t)
            /\ pc[t] \in {"merge_rlock", "merge_loop", "merge_unlock"} =>
                   (wr[call[t].m] = {t} /\ data[call[t].m] = g[t].pre)
            /\ Returned(t) =>
                   /\ t \notin wr[call[t].m]
                   /\ g[t].post = g[t].pre

\* A self-merge of a store with two entries has returned.
C9_Witness ==
    \E t \in Threads :
        /\ call[t].op = "Merge" /\ call[t].m = call[t].o /\ Returned(t)
        /\ Cardinality(DOMAIN g[t].pre) >= 2
        /\ data[call[t].m] = g[t].pre
        /\ wr[call[t].m] = {}

\* ------------------------------------------------------------------ C10
Injective(s) == \A j, k \in DOMAIN s : s[j] = s[k] => j = k

\* C10: a Flip of a store whose values are pairwise distinct leaves every pair
\* (k, v) as (v, k) and nothing else, so the size is the same; and a second
\* Flip right after it gives back the original store.
C10_FlipTwice ==
    \A t \in Threads :
        (call[t].op = "Flip" /\ Returned(t) /\ Injective(g[t].pre)) =>
            /\ \A k \in DOMAIN g[t].pre :
                   /\ g[t].pre[k] \in DOMAIN g[t].post
                   /\ g[t].post[g[t].pre[k]] = k
            /\ Cardinality(DOMAIN g[t].post) = Cardinality(DOMAIN g[t].pre)
            /\ \A u \in Threads :
                   (u = t + 1 /\ call[u].op = "Flip" /\ call[u].m = call[t].m
                        /\ Returned(u))
                       => (g[u].pre = g[t].post /\ g[u].post = g[t].pre)

\* Two Flips in a row of a store with distinct values that a Flip changes.
C10_Witness ==
    \E t, u \in Threads :
        /\ u = t + 1
        /\ call[t].op = "Flip" /\ call[u].op = "Flip"
        /\ Returned(t) /\ Returned(u)
        /\ Injective(g[t].pre)
        /\ g[t].post # g[t].pre
        /\ data[call[u].m] = g[t].pre

\* ------------------------------------------------------------------ C11
Range(s) == {s[k] : k \in DOMAIN s}
\* The store s holds every entry of the store d, and more.
StrictSubStore(d, s) ==
    /\ DOMAIN d \subseteq DOMAIN s
    /\ DOMAIN d # DOMAIN s
    /\ \A k \in DOMAIN d : d[k] = s[k]

\* C11: a Flip of a store in which two keys hold the same value leaves one
\* entry per distinct value, mapped to one of the keys that held it; the Flip
\* right after it leaves a strict part of the original store.
C11_FlipLossy ==
    \A t \in Threads :
        (call[t].op = "Flip" /\ Returned(t) /\ ~Injective(g[t].pre)) =>
            /\ DOMAIN g[t].post = Range(g[t].pre)
            /\ \A v \in DOMAIN g[t].post :
                   g[t].post[v] \in DOMAIN g[t].pre /\ g[t].pre[g[t].post[v]] = v
            /\ \A u \in Threads :
                   (u = t + 1 /\ call[u].op = "Flip" /\ call[u].m = call[t].m
                        /\ Returned(u))
                       => /\ g[u].pre = g[t].post
                          /\ StrictSubStore(g[u].post, g[t].pre)
                          /\ g[u].post = [k \in Range(g[t].post) |-> g[t].pre[k]]

\* Two Flips in a row of a store whose keys all hold one value: one entry is
\* left, and the second Flip gives back one of the original entries.
C11_Witness ==
    \E t, u \in Threads :
        /\ u = t + 1
        /\ call[t].op = "Flip" /\ call[u].op = "Flip"
        /\ Returned(t) /\ Returned(u)
        /\ Cardinality(DOMAIN g[t].pre) >= 2
        /\ Cardinality(Range(g[t].pre)) = 1
        /\ Cardinality(DOMAIN g[t].post) = 1
        /\ Cardinality(DOMAIN data[call[u].m]) = 1
        /\ data[call[u].m] = g[u].post

\* ------------------------------------------------------------------ C12
\* The store that call t of a sequential run leaves: what the next call
\* finds, or the store as it is when no call has followed.
PostOf(t) ==
    IF t + 1 \in Threads /\ pc[t + 1] # "idle"
      THEN g[t + 1].pre
      ELSE data[call[t].m]

\* What doSetWithLockCheck stores for the value v it is given: the result of
\* calling v when v is a function, v itself otherwise.
Resolved(v) == IF IsFn(v) THEN Apply(v) ELSE v

\* With calls made one after the other, a SetIfNotExist(k, v) for a key k that
\* is not in the store returns true and leaves k holding Held(v); a Get(k)
\* after it returns Held(v); a SetIfNotExist(k, w) after it, with w other than
\* v, returns false and leaves the store as it found it.
SetIfNotExistLeaves(Held(_)) ==
    \A t \in Threads :
        (call[t].op = "SetIfNotExist" /\ Returned(t)
             /\ call[t].k \notin DOMAIN g[t].pre) =>
            /\ ret[t].ok
            /\ PostOf(t) = Put(g[t].pre, call[t].k, Held(call[t].v))
            /\ \A u \in Threads :
                   (u = t + 1 /\ Returned(u) /\ call[u].k = call[t].k) =>
                       /\ call[u].op = "Get" => ret[u].val = Held(call[t].v)
                       /\ (call[u].op = "SetIfNotExist" /\ call[u].v # call[t].v) =>
                              /\ ~ret[u].ok
                              /\ PostOf(u) = PostOf(t)
                              /\ Lookup(PostOf(u), call[t].k) = Held(call[t].v)
AsGiven(v) == v

\* C12 as stated: with calls made one after the other, SetIfNotExist(k, v)
\* for a key k that is not in the store returns true and leaves k holding v,
\* whatever v is; a Get(k) after it returns v; a SetIfNotExist(k, w) after
\* it, with w other than v, returns false and leaves the store as it found it.
C12_StoresAsGiven == SetIfNotExistLeaves(AsGiven)

\* C12, amended: the same, where k is left holding v when v is not a function
\* and the result of calling v when v is a function of type func()
\* interface{}; the second call does not call w and changes nothing.
C12_SetIfNotExistOnce ==
    /\ SetIfNotExistLeaves(Resolved)
    /\ \A u \in Threads :
           (call[u].op = "SetIfNotExist" /\ Started(u)
                /\ call[u].k \in DOMAIN g[u].pre) =>
               pc[u] \notin {"dsc_lock", "dsc_check", "dsc_callf", "dsc_store"}

\* A first SetIfNotExist given a function stored what the function returns
\* next to another entry and returned true; a second one with a plain value
\* returned false.
C12_Witness ==
    \E t, u \in Threads :
        /\ u = t + 1
        /\ call[t].op = "SetIfNotExist" /\ call[u].op = "SetIfNotExist"
        /\ Returned(t) /\ Returned(u)
        /\ call[t].k \notin DOMAIN g[t].pre
        /\ DOMAIN g[t].pre # {}
        /\ IsFn(call[t].v) /\ Apply(call[t].v) \in Vals
        /\ call[u].v \in Vals /\ call[u].v # Apply(call[t].v)
        /\ ret[t].ok /\ ~ret[u].ok
        /\ data[call[t].m] = Put(g[t].pre, call[t].k, Apply(call[t].v))
        /\ data[call[t].m] # Put(g[t].pre, call[t].k, call[t].v)

\* ------------------------------------------------------------------ C13
\* The last place (from 1) at which key k occurs in the slice ks.
LastIndex(ks, k) ==
    CHOOSE i \in 1..Len(ks) :
        ks[i] = k /\ \A j \in (i + 1)..Len(ks) : ks[j] # k
ValueAt(vs, i) == IF i <= Len(vs) THEN vs[i] ELSE Nil
Built(t) == call[t].op = "NewFromArray" /\ Returned(t)

\* C13 as stated: in the store NewFromArray(keys, values) builds, every
\* keys[i] that has a values[i] maps to it, and every keys[i] beyond the
\* values is present with nil.
C13_EveryIndex ==
    \A t \in Threads :
        Built(t) =>
            \A i \in 1..Len(call[t].ks) :
                /\ call[t].ks[i] \in DOMAIN ret[t].map
                /\ ret[t].map[call[t].ks[i]] = ValueAt(call[t].vs, i)

\* C13, amended: the keys of the store are the keys given; each maps to the
\* value at the last place it occurs in keys, or to nil if that place is
\* beyond the values (so with pairwise distinct keys, keys[i] maps to
\* values[i] or nil for every i); values beyond the keys are ignored; and
\* Search, Contains and Size on the new container count the nil entries.
C13_LastIndexWins ==
    \A t \in Threads :
        Built(t) =>
            LET ks == call[t].ks
                vs == call[t].vs
                m == ret[t].map
            IN /\ DOMAIN m = {ks[i] : i \in 1..Len(ks)}
               /\ \A k \in DOMAIN m : m[k] = ValueAt(vs, LastIndex(ks, k))
               /\ (\A i, j \in 1..Len(ks) : ks[i] = ks[j] => i = j) =>
                      \A i \in 1..Len(ks) : m[ks[i]] = ValueAt(vs, i)
               /\ \A u \in Threads :
                      (u > t /\ Returned(u)) =>
                          /\ call[u].op = "Contains" =>
                                 (ret[u].ok <=> \E i \in 1..Len(ks) : ks[i] = call[u].k)
                          /\ call[u].op = "Search" =>
                                 /\ ret[u].ok <=> \E i \in 1..Len(ks) : ks[i] = call[u].k
                                 /\ ret[u].val = Lookup(m, call[u].k)
                          /\ call[u].op = "Size" =>
                                 ret[u].val = Cardinality({ks[i] : i \in 1..Len(ks)})

\* NewFromArray was given distinct keys and fewer values, and a Search of the
\* last key found it with the nil value.
C13_Witness ==
    \E t, u \in Threads :
        /\ Built(t)
        /\ Len(call[t].ks) > Len(call[t].vs) /\ Len(call[t].vs) > 0
        /\ \A i, j \in 1..Len(call[t].ks) : call[t].ks[i] = call[t].ks[j] => i = j
        /\ call[u].op = "Search" /\ Returned(u)
        /\ call[u].k = call[t].ks[Len(call[t].ks)]
        /\ ret[u].ok /\ ret[u].val = Nil

\* ------------------------------------------------------------------ C14
\* The call of goroutine t is over: it returned, or a panic left it.
Over(t) == pc[t] \in {"done", "panicked"}

\* C14: the callback of LockFunc runs with the exclusive lock held by its
\* goroutine alone, the callback of RLockFunc with the shared lock held and
\* no writer; before the callback and after it, whether it returned or
\* panicked, the goroutine holds no lock; so when no call is under way the
\* lock is free, and a Set or Get waiting for it can take it.
C14_CallbackLock ==
    /\ \A t \in Threads :
           /\ (call[t].op = "LockFunc" /\ pc[t] \in {"lockfunc_f", "lockfunc_unlock"})
                  => (wr[call[t].m] = {t} /\ rd[call[t].m] = {})
           /\ (call[t].op = "RLockFunc" /\ pc[t] \in {"rlockfunc_f", "rlockfunc_runlock"})
                  => (t \in rd[call[t].m] /\ wr[call[t].m] = {})
           /\ (call[t].op \in {"LockFunc", "RLockFunc"}
                   /\ (Over(t) \/ pc[t] \in {"lockfunc_lock", "rlockfunc_rlock"}))
                  => \A c \in Maps : t \notin wr[c] \cup rd[c]
    /\ \A u \in Threads :
           (\A t \in Threads \ {u} : pc[t] = "idle" \/ Over(t)) =>
               /\ pc[u] = "set_lock" => ENABLED SetLock(u)
               /\ pc[u] = "get_rlock" => ENABLED GetRLock(u)
               /\ pc[u] = "lockfunc_lock" => ENABLED LockFuncLock(u)

\* A LockFunc whose callback panicked is over, its write is in the store, and
\* a Set by another goroutine went through after it.
C14_Witness ==
    \E t, u \in Threads :
        /\ call[t].op = "LockFunc" /\ call[t].cb = "panic" /\ pc[t] = "panicked"
        /\ call[u].op = "Set" /\ Returned(u)
        /\ call[u].v # call[t].v
        /\ data[call[t].m][call[t].k] = call[u].v

\* ------------------------------------------------------------------ C15
\* The visitor of t's Iterator has returned false.
Stopped(t) == \E i \in 1..Len(loc[t].keys) : loc[t].keys[i] = call[t].k

\* C15: from the RLock of Iterator to its RUnlock the goroutine holds the
\* shared lock, nobody holds the exclusive lock and the store is the one
\* found at RLock; the visitor is called at most once per entry, with entries
\* of that store, and never again after it has returned false; if it never
\* returns false it is called for every entry; and when Iterator has
\* returned the goroutine holds no lock.
C15_IteratorTraversal ==
    \A t \in Threads :
        call[t].op = "Iterator" =>
            LET seen == loc[t].keys
            IN /\ pc[t] \in {"iter_loop", "iter_runlock"} =>
                      /\ t \in rd[call[t].m]
                      /\ wr[call[t].m] = {}
                      /\ data[call[t].m] = g[t].pre
               /\ \A i, j \in 1..Len(seen) : seen[i] = seen[j] => i = j
               /\ \A i \in 1..Len(seen) :
                      /\ seen[i] \in DOMAIN g[t].pre
                      /\ loc[t].n[seen[i]] = g[t].pre[seen[i]]
                      /\ seen[i] = call[t].k => i = Len(seen)
               /\ pc[t] = "iter_loop" => ~Stopped(t)
               /\ Returned(t) =>
                      /\ t \notin rd[call[t].m] \cup wr[call[t].m]
                      /\ g[t].post = g[t].pre
                      /\ ~Stopped(t) => loc[t].n = g[t].pre

\* One Iterator stopped after its first entry with a second one left, another
\* visited both entries of the same store, and both have returned.
C15_Witness ==
    \E t, u \in Threads :
        /\ call[t].op = "Iterator" /\ call[u].op = "Iterator"
        /\ Returned(t) /\ Returned(u)
        /\ Stopped(t) /\ Len(loc[t].keys) = 1 /\ loc[t].rest # {}
        /\ ~Stopped(u) /\ Len(loc[u].keys) >= 2
        /\ rd[call[t].m] = {}

\* ------------------------------------------------------------------ C16
\* What t's copy loop has built is a copy of the store s: the same map for
\* Map and Clone, every key once for Keys, the value of every entry once for
\* Values.
IsCopyOf(t, s) ==
    CASE call[t].op \in {"Map", "Clone"} -> loc[t].n = s
      [] call[t].op = "Keys" ->
             /\ Len(loc[t].n) = Cardinality(DOMAIN s)
             /\ {loc[t].n[i] : i \in 1..Len(loc[t].n)} = DOMAIN s
      [] call[t].op = "Values" ->
             /\ Len(loc[t].n) = Cardinality(DOMAIN s)
             /\ {loc[t].keys[i] : i \in 1..Len(loc[t].keys)} = DOMAIN s
             /\ \A i \in 1..Len(loc[t].n) : loc[t].n[i] = s[loc[t].keys[i]]

\* C16: Map, Clone, Keys and Values build their result between one RLock and
\* its RUnlock, with no writer inside, and at the end of the loop it is a copy
\* of the store as it is then; the result is a new object; whatever is set in
\* the container afterwards, the result holds what was built, changed only by
\* what its owner wrote into it; and what the owner writes (nil here, which
\* no Set stores) never shows in a container.
C16_CopiesIndependent ==
    /\ \A t \in Threads :
           call[t].op \in CopyOps =>
               /\ pc[t] \in {"map_loop", "keys_loop", "values_loop"} =>
                      /\ t \in rd[call[t].m] /\ wr[call[t].m] = {}
                      /\ loc[t].rest = {} => IsCopyOf(t, data[call[t].m])
               /\ Returned(t) =>
                      /\ ret[t].ref = "new"
                      /\ Contents(t) = IF g[t].stored THEN g[t].post ELSE loc[t].n
    /\ \A c \in Maps : \A k \in DOMAIN data[c] : data[c][k] # Nil

\* A Map copy was returned, its owner wrote into it, and a Set changed the
\* container after the copy was taken: the copy and the store differ in both
\* entries.
C16_Witness ==
    \E t, u \in Threads :
        /\ call[t].op = "Map" /\ Returned(t) /\ g[t].stored
        /\ call[u].op = "Set" /\ Returned(u)
        /\ Lookup(loc[t].n, call[u].k) # call[u].v
        /\ data[call[u].m][call[u].k] = call[u].v
        /\ \E k \in DOMAIN Contents(t) :
               Contents(t)[k] = Nil /\ k # call[u].k /\ k \in DOMAIN data[call[t].m]

\* ------------------------------------------------------------------ C17
\* The Remove calls of key k that have done their delete, and those of them
\* that found a value.
Removed(k) ==
    {t \in Threads : call[t].op = "Remove" /\ call[t].k = k
                         /\ pc[t] \in {"remove_unlock", "remove_ret", "done"}}
Winners(k) == {t \in Removed(k) : loc[t].v # Nil}
\* The values of key k in container a and in the hands of the Remove calls.
Conserved(k) ==
    (IF k \in DOMAIN data["a"] THEN {data["a"][k]} ELSE {})
        \cup {loc[t].v : t \in Winners(k)}

\* C17: when goroutines remove a key that holds a value and nobody sets it,
\* the value is in the store until one Remove has deleted it and then with
\* that Remove alone (the same value all along); the key is absent once any
\* Remove has deleted; each Remove returns what it read, so one returns the
\* value and all the others nil.
C17_RemoveOnce ==
    /\ [](\A k \in HotKeys :
              /\ Cardinality(Winners(k)) + (IF k \in DOMAIN data["a"] THEN 1 ELSE 0) = 1
              /\ Removed(k) # {} => k \notin DOMAIN data["a"]
              /\ \A t \in Removed(k) :
                     /\ loc[t].ok <=> t \in Winners(k)
                     /\ Returned(t) => ret[t].val = loc[t].v)
    /\ [][\A k \in HotKeys : Conserved(k)' = Conserved(k)]_vars

\* All the goroutines removed the key; one of them returned its value and two
\* returned nil.
C17_Witness ==
    \E k \in HotKeys :
        /\ \A t \in Threads : t \in Removed(k) /\ Returned(t)
        /\ Cardinality({t \in Threads : ret[t].val # Nil}) = 1
        /\ Cardinality({t \in Threads : ret[t].val = Nil}) >= 2

\* ------------------------------------------------------------------ C18
\* The next step of goroutine t reads the store of container c.
ReadsStore(t, c) ==
    \/ /\ call[t].m = c
       /\ pc[t] \in {"search_read", "contains_read", "get_read", "size_read",
                   "isempty_read", "map_loop", "keys_loop", "values_loop", "iter_loop",
                   "rlockfunc_f", "lockfunc_f", "dsc_check", "remove_read",
                   "flip_loop"}
    \/ call[t].op = "Merge" /\ call[t].o = c /\ pc[t] = "merge_loop"

\* C18: a goroutine about to read a container's store holds its shared or
\* its exclusive lock; a goroutine between Lock and Unlock (RLock and RUnlock)
\* is the holder (a holder) of the lock; no goroutine is in an exclusive
\* section of a container while another is in an exclusive or a shared
\* section of it; and every step that changes a store, Clear's and Flip's
\* replacement of it included, is taken with the exclusive lock held by a
\* goroutine that is in its exclusive section.
C18_StoreUnderLock ==
    /\ [](\A c \in Maps : \A t \in Threads :
              /\ ReadsStore(t, c) => t \in rd[c] \cup wr[c]
              /\ InExclusive(t, c) => (wr[c] = {t} /\ rd[c] = {})
              /\ InShared(t, c) => (t \in rd[c] /\ wr[c] = {})
              /\ InExclusive(t, c) =>
                     \A u \in Threads \ {t} : ~InExclusive(u, c) /\ ~InShared(u, c))
    /\ [][\A c \in Maps :
              data'[c] # data[c] => \E t \in Threads : InExclusive(t, c) /\ wr[c] = {t}]_vars

\* A Merge reads the other container under its shared lock while a Map reads
\* it too, and a Clear waits for the lock of the receiver.
C18_Witness ==
    \E t, u \in Threads :
        /\ call[t].op = "Merge" /\ pc[t] = "merge_loop" /\ call[t].o # call[t].m
        /\ loc[t].rest # {}
        /\ rd[call[t].o] = {t}
        /\ wr[call[t].m] = {t}
        /\ call[u].op = "Clear" /\ pc[u] = "clear_lock"

\* ------------------------------------------------------------------ C19
\* Goroutine t runs a callback, supplier or visitor that calls, on the
\* container whose lock the outer call holds, a method that lock excludes: Set
\* or Get under the exclusive lock, Set under the shared lock.
Reentrant(t) ==
    /\ Started(t)
    /\ call[t].cb \in InnerOps
    /\ call[t].o = call[t].m
    /\ call[t].cb = "Set" \/ call[t].op \notin OuterSharedOps
\* t is at the Lock or RLock of the inner call; t is past it.
AtInnerLock(t) == pc[t] \in {"in_set_lock", "in_get_rlock"}
PastInnerLock(t) ==
    pc[t] \in {"in_set_write", "in_set_unlock", "in_get_read", "in_get_runlock", "in_ret"}
\* The callback, supplier or visitor of t's call was called.
CallbackRan(t) ==
    CASE call[t].op \in FuncLockOps -> g[t].fcalls > 0
      [] call[t].op = "Iterator" -> loc[t].keys # << >>
      [] OTHER -> pc[t] \notin {"idle", "lockfunc_lock", "lockfunc_f",
                               "rlockfunc_rlock", "rlockfunc_f"}

\* C19: when the callback of LockFunc or the supplier run by GetOrSetFuncLock
\* or SetIfNotExistFuncLock calls Set or Get of the same container, or the
\* visitor of Iterator or the callback of RLockFunc calls Set of the same
\* container, the inner call never gets its lock: it cannot take it in any
\* state, it stays at its Lock (RLock) in every later state, and the outer
\* call is never past the callback and never returns.
C19_NotReentrant ==
    /\ [](\A t \in Threads :
              Reentrant(t) =>
                  /\ ~PastInnerLock(t)
                  /\ AtInnerLock(t) => ~ENABLED (InnerSetLock(t) \/ InnerGetRLock(t))
                  /\ CallbackRan(t) => AtInnerLock(t) /\ ~Returned(t))
    /\ [][\A t \in Threads :
              (Reentrant(t) /\ AtInnerLock(t)) =>
                  (pc'[t] = pc[t] /\ call'[t] = call[t])]_vars

\* A LockFunc whose callback set a key of the other container has returned,
\* and another goroutine's callback is stuck at the Lock of the container its
\* LockFunc, RLockFunc or Iterator holds, after the first one returned.
C19_Witness ==
    \E t, u \in Threads :
        /\ Reentrant(t) /\ AtInnerLock(t) /\ call[t].cb = "Set"
        /\ call[t].op \in {"RLockFunc", "Iterator"}
        /\ call[u].op = "LockFunc" /\ call[u].o # call[u].m /\ Returned(u)
        /\ call[u].cb = "Set"

\* ------------------------------------------------------------------ C20
\* The value handed to doSetWithLockCheck: the argument of GetOrSet and
\* SetIfNotExist, the result of the supplier of GetOrSetFunc and
\* SetIfNotExistFunc.
Given(t) == IF call[t].op \in {"GetOrSetFunc", "SetIfNotExistFunc"}
              THEN Apply(call[t].v) ELSE call[t].v
GivenOps == {"GetOrSet", "SetIfNotExist", "GetOrSetFunc", "SetIfNotExistFunc"}

\* C20: for GetOrSet, SetIfNotExist, GetOrSetFunc and SetIfNotExistFunc, a
\* value that is a function is called only with the exclusive lock held and
\* the key absent; the value written for the key is the result of that
\* function, and the given value itself when it is not a function; a call
\* that stored leaves that value in the store, and GetOrSet and GetOrSetFunc
\* return it.
C20_FunctionValue ==
    \A t \in Threads :
        (Started(t) /\ call[t].op \in GivenOps) =>
            LET m == call[t].m
                k == call[t].k
            IN  /\ pc[t] = "dsc_callf" =>
                       /\ IsFn(Given(t)) /\ loc[t].value = Given(t)
                       /\ wr[m] = {t}
                       /\ k \notin DOMAIN data[m]
                /\ pc[t] = "dsc_store" =>
                       /\ loc[t].value = Resolved(Given(t))
                       /\ wr[m] = {t}
                /\ g[t].stored =>
                       /\ k \in DOMAIN data[m]
                       /\ data[m][k] = Resolved(Given(t))
                /\ (Returned(t) /\ g[t].stored /\ call[t].op \in GetOrSetOps) =>
                       ret[t].val = Resolved(Given(t))

\* A GetOrSetFunc whose supplier returned a function for an absent key stored
\* and returned what that function returns, and not the function.
C20_Witness ==
    \E t \in Threads :
        /\ call[t].op = "GetOrSetFunc" /\ IsFn(Given(t))
        /\ Returned(t) /\ g[t].stored
        /\ ret[t].val = Apply(Given(t))
        /\ data[call[t].m][call[t].k] = Apply(Given(t))
        /\ data[call[t].m][call[t].k] # Given(t)

====
